---- MODULE Spec2Model ----
(***************************************************************************)
(* Matching engine: the per-symbol OrderBook (src/src/order_book.cpp), the *)
(* StopOrderManager (src/src/stop_order_manager.cpp), the request handlers *)
(* of src/src/server.cpp and the WAL replay of src/src/main.cpp.           *)
(*                                                                         *)
(* Spec      an OrderBook object driven by add_order / cancel_order calls  *)
(* SpecSeq   the engine serving requests one at a time, with its WAL       *)
(* SpecConc  the engine serving requests on concurrent handler threads     *)
(* SpecStop  a StopOrderManager object driven by calls of its methods      *)
(* SpecWal        the WAL (src/src/wal.cpp): producers, writer, stop()     *)
(* SpecWalLive    the same, with fair scheduling of its threads            *)
(* SpecWalRotate  the same as SpecWal, with a thread calling flush/rotate  *)
(***************************************************************************)
EXTENDS Integers, Sequences, FiniteSets, TLC

\* ------------------------------------------------------------------ bounds
MaxOrders == 3
MaxPrice == 2
MaxQty == 2
MaxEngineOrders == 2

Prices == 1..MaxPrice
Qtys == 1..MaxQty
OrderTypes == {"market", "limit", "ioc", "fok"}
Priced == {"limit", "ioc", "fok"}
Sides == {"buy", "sell"}
BookSymbol == "BTC-USDT"

\* ------------------------------------------------------------- state
VARIABLES
    ob,             \* the OrderBook under test: bids_, asks_, order_index_
    next_order_id,  \* number of the next order handed to ob
    last,           \* the last call on ob: its arguments, result, and ob before it
    accepted_qty,   \* sum of the quantities of all orders given to add_order
    traded_qty,     \* sum of the quantities of all trades returned
    discarded_qty,  \* sum of the remainders cancelled or discarded
    g_order_books,          \* symbol -> OrderBook
    g_stop_order_managers,  \* symbol -> StopOrderManager
    g_order_id_to_symbol,   \* order id -> symbol
    g_total_orders,         \* counter behind ORD-n and STO-n
    g_total_trades,         \* number of trades produced
    wal,                    \* the records handed to WAL::append_json, in append order
    threads,                \* the request each handler thread serves and where it stands
    running_,               \* WAL::running_
    queue_,                 \* WAL::queue_, the lines pushed and not yet taken by the writer
    mu_,                    \* WAL::mu_: the thread that holds it, or "free"
    ofs_,                   \* WAL::ofs_: whether it is open, and the lines written through it
    writer_thread_,         \* WAL::writer_thread_: where it stands, and its local_queue
    appenders,              \* the threads inside WAL::append_json
    stopper,                \* the thread that calls WAL::stop
    admin,                  \* the thread that calls WAL::flush or WAL::rotate
    hist,                   \* what happened to each line: pushed, refused, returned, lost
    som,                    \* the StopOrderManager under test: buy_stops_, sell_stops_, order_index_
    som_next_id,            \* number of the next stop order handed to som
    som_last,               \* the last call on som: its arguments, result, and som before it
    res,                    \* the response to the latest request served
    g_broadcast_queue,      \* the messages the latest request pushed onto g_broadcast_queue
    bq_running_,            \* BroadcastQueue::running_
    bq_queue_,              \* BroadcastQueue::queue_
    bq_mu_,                 \* BroadcastQueue::mu_: the thread that holds it, or "free"
    workers,                \* BroadcastQueue::writer_threads_: where each stands, and its msg
    pushers,                \* the threads inside push_trade or push_book_update
    bq_stopper,             \* the thread that destroys the BroadcastQueue
    bq_hist,                \* what happened to each message: pushed, popped, handed to the sink
    lk_owner,               \* mutex -> the thread that holds it, or "free"
    lk_threads,             \* thread -> the lock and unlock calls left of the request it serves
    fee_last,               \* the trades of the latest fill, with the fees calculate_fees gave them
    wal_file,               \* the WAL file at path_: whether it exists, and its lines
    rp,                     \* the call of WAL::replay under way: position, entries, errors
    id_counter,             \* OrderStore::id_counter
    id_callers,             \* the threads inside OrderStore::next_id
    id_returned             \* the ids next_id has returned, in the order of return

bookVars == <<ob, next_order_id, last, accepted_qty, traded_qty, discarded_qty>>
engineVars == <<g_order_books, g_stop_order_managers, g_order_id_to_symbol,
                g_total_orders, g_total_trades, wal>>
walVars == <<running_, queue_, mu_, ofs_, writer_thread_, appenders, stopper, admin, hist>>
stopVars == <<som, som_next_id, som_last>>
respVars == <<res, g_broadcast_queue>>
bqVars == <<bq_running_, bq_queue_, bq_mu_, workers, pushers, bq_stopper, bq_hist>>
lockVars == <<lk_owner, lk_threads>>
feeVars == <<fee_last>>
replayVars == <<wal_file, rp>>
storeVars == <<id_counter, id_callers, id_returned>>
auxVars == <<lockVars, feeVars, replayVars, storeVars>>
coreVars == <<bookVars, engineVars, threads, walVars, stopVars, respVars, bqVars>>

\* ------------------------------------------------------------- helpers
Min(S) == CHOOSE x \in S : \A y \in S : x <= y
Max(S) == CHOOSE x \in S : \A y \in S : x >= y
MinOf(a, b) == IF a < b THEN a ELSE b

\* sum of the quantity fields of a sequence of orders or trades
RECURSIVE SumQty(_)
SumQty(s) == IF s = <<>> THEN 0 ELSE Head(s).quantity + SumQty(Tail(s))

\* std::map erase / operator[] on a map held as a function over its keys
MapErase(m, k) == [p \in (DOMAIN m) \ {k} |-> m[p]]
MapPut(m, k, v) == [p \in (DOMAIN m) \cup {k} |-> IF p = k THEN v ELSE m[p]]

\* begin() of bids_ (std::greater: highest price) and of asks_ (lowest price)
MapBegin(m, desc) == IF desc THEN Max(DOMAIN m) ELSE Min(DOMAIN m)

Order(id, type, side, qty, price) ==
    [order_id |-> id, symbol |-> BookSymbol, order_type |-> type, side |-> side,
     quantity |-> qty, price |-> price]

EmptyMap == [p \in {} |-> <<>>]
EmptyBook == [bids |-> EmptyMap, asks |-> EmptyMap, order_index |-> EmptyMap]

\* ------------------------------------------------------ OrderBook::add_order

\* variant: the FOK pre-check without its price constraint
fok_price_break_none(order, is_buy, price_level) == FALSE

\* FOK pre-check, the break on the price constraint (lines 54 and 64)
fok_price_break(order, is_buy, price_level) ==
    IF is_buy THEN order.price > 0 /\ price_level > order.price
              ELSE order.price > 0 /\ price_level < order.price

\* FOK pre-check, inner loop over one level (lines 55-58 / 65-68)
RECURSIVE fok_scan_level(_, _, _)
fok_scan_level(q, fillable, order) ==
    IF q = <<>> THEN fillable
    ELSE LET f == fillable + Head(q).quantity
         IN IF f >= order.quantity THEN f ELSE fok_scan_level(Tail(q), f, order)

\* FOK pre-check, outer loop over the levels of the opposite side (lines 50-71)
RECURSIVE fok_scan(_, _, _, _, _)
fok_scan(m, keys, fillable, order, is_buy) ==
    IF keys = {} THEN fillable
    ELSE LET price_level == IF is_buy THEN Min(keys) ELSE Max(keys)
         IN IF fok_price_break(order, is_buy, price_level) THEN fillable
            ELSE LET f == fok_scan_level(m[price_level], fillable, order)
                 IN IF f >= order.quantity THEN f
                    ELSE fok_scan(m, keys \ {price_level}, f, order, is_buy)

fok_fillable(book, order) ==
    LET is_buy == order.side = "buy"
        m == IF is_buy THEN book.asks ELSE book.bids
    IN fok_scan(m, DOMAIN m, 0, order, is_buy)

\* variant: the price constraint is applied to every order type
match_price_break_all_types(order, is_buy, price_level) ==
    \/ is_buy /\ price_level > order.price
    \/ ~is_buy /\ price_level < order.price

\* variant: the limit price itself no longer matches (>= and <= for > and <)
match_price_break_strict(order, is_buy, price_level) ==
    /\ order.order_type = "limit"
    /\ \/ is_buy /\ price_level >= order.price
       \/ ~is_buy /\ price_level <= order.price

\* the price constraint inside match_against_book (lines 84-87)
match_price_break(order, is_buy, price_level) ==
    /\ order.order_type = "limit"
    /\ \/ is_buy /\ price_level > order.price
       \/ ~is_buy /\ price_level < order.price

\* variant: the trade is priced at the taker's price
make_trade_taker_price(order, maker, price_level, trade_qty) ==
    [price |-> order.price, quantity |-> trade_qty, aggressor_side |-> order.side,
     maker_order_id |-> maker.order_id, taker_order_id |-> order.order_id]

\* the Trade built for one match (lines 94-103)
make_trade(order, maker, price_level, trade_qty) ==
    [price |-> price_level, quantity |-> trade_qty, aggressor_side |-> order.side,
     maker_order_id |-> maker.order_id, taker_order_id |-> order.order_id]

\* variant: a filled maker is popped but its index entry is kept
after_fill_keep_index(q, order_index, maker, trade_qty) ==
    LET m2 == [maker EXCEPT !.quantity = maker.quantity - trade_qty]
    IN IF m2.quantity > 0
       THEN [q |-> <<m2>> \o Tail(q), order_index |-> order_index]
       ELSE [q |-> Tail(q), order_index |-> order_index]

\* variant: a partially filled maker is pushed back with its old quantity
after_fill_keep_qty(q, order_index, maker, trade_qty) ==
    LET m2 == [maker EXCEPT !.quantity = maker.quantity - trade_qty]
    IN IF m2.quantity > 0
       THEN [q |-> <<maker>> \o Tail(q), order_index |-> order_index]
       ELSE [q |-> Tail(q), order_index |-> MapErase(order_index, maker.order_id)]

\* what happens to the maker and the index after a fill (lines 108-115)
after_fill(q, order_index, maker, trade_qty) ==
    LET m2 == [maker EXCEPT !.quantity = maker.quantity - trade_qty]
    IN IF m2.quantity > 0
       THEN [q |-> <<m2>> \o Tail(q), order_index |-> order_index]
       ELSE [q |-> Tail(q), order_index |-> MapErase(order_index, maker.order_id)]

\* inner loop of match_against_book over the best level (lines 89-116)
\* st = [book_map, order_index, remaining, trades]
RECURSIVE match_level(_, _, _)
match_level(st, order, price_level) ==
    LET q == st.book_map[price_level]
    IN IF st.remaining > 0 /\ q # <<>>
       THEN LET maker == Head(q)
                trade_qty == MinOf(st.remaining, maker.quantity)
                tr == make_trade(order, maker, price_level, trade_qty)
                af == after_fill(q, st.order_index, maker, trade_qty)
            IN match_level([book_map |-> [st.book_map EXCEPT ![price_level] = af.q],
                            order_index |-> af.order_index,
                            remaining |-> st.remaining - trade_qty,
                            trades |-> Append(st.trades, tr)],
                           order, price_level)
       ELSE st

\* outer loop of match_against_book (lines 78-122)
RECURSIVE match_against_book(_, _, _)
match_against_book(st, order, desc) ==
    IF st.remaining > 0 /\ DOMAIN st.book_map # {}
    THEN LET price_level == MapBegin(st.book_map, desc)
         IN IF match_price_break(order, order.side = "buy", price_level) THEN st
            ELSE LET s2 == match_level(st, order, price_level)
                     s3 == IF s2.book_map[price_level] = <<>>
                           THEN [s2 EXCEPT !.book_map = MapErase(s2.book_map, price_level)]
                           ELSE s2
                 IN match_against_book(s3, order, desc)
    ELSE st

\* variant: any order type rests its remainder
rest_order_any_type(book, order, remaining) ==
    IF remaining > 0
    THEN LET resting == [order EXCEPT !.quantity = remaining]
             is_buy == order.side = "buy"
             lvl(m) == IF order.price \in DOMAIN m THEN m[order.price] ELSE <<>>
         IN [bids |-> IF is_buy THEN MapPut(book.bids, order.price, Append(lvl(book.bids), resting))
                                ELSE book.bids,
             asks |-> IF is_buy THEN book.asks
                                ELSE MapPut(book.asks, order.price, Append(lvl(book.asks), resting)),
             order_index |-> MapPut(book.order_index, order.order_id,
                                    [price |-> order.price, is_buy |-> is_buy])]
    ELSE book

\* variant: the remainder rests with the order's original quantity
rest_order_full_quantity(book, order, remaining) ==
    IF remaining > 0 /\ order.order_type = "limit"
    THEN LET resting == order
             is_buy == order.side = "buy"
             lvl(m) == IF order.price \in DOMAIN m THEN m[order.price] ELSE <<>>
         IN [bids |-> IF is_buy THEN MapPut(book.bids, order.price, Append(lvl(book.bids), resting))
                                ELSE book.bids,
             asks |-> IF is_buy THEN book.asks
                                ELSE MapPut(book.asks, order.price, Append(lvl(book.asks), resting)),
             order_index |-> MapPut(book.order_index, order.order_id,
                                    [price |-> order.price, is_buy |-> is_buy])]
    ELSE book

\* variant: a limit order rests whatever is left of it, nothing included
rest_order_zero_remainder(book, order, remaining) ==
    IF order.order_type = "limit"
    THEN LET resting == [order EXCEPT !.quantity = remaining]
             is_buy == order.side = "buy"
             lvl(m) == IF order.price \in DOMAIN m THEN m[order.price] ELSE <<>>
         IN [bids |-> IF is_buy THEN MapPut(book.bids, order.price, Append(lvl(book.bids), resting))
                                ELSE book.bids,
             asks |-> IF is_buy THEN book.asks
                                ELSE MapPut(book.asks, order.price, Append(lvl(book.asks), resting)),
             order_index |-> MapPut(book.order_index, order.order_id,
                                    [price |-> order.price, is_buy |-> is_buy])]
    ELSE book

\* variant: the remainder is put at the head of its level (push_front)
rest_order_front(book, order, remaining) ==
    IF remaining > 0 /\ order.order_type = "limit"
    THEN LET resting == [order EXCEPT !.quantity = remaining]
             is_buy == order.side = "buy"
             lvl(m) == IF order.price \in DOMAIN m THEN m[order.price] ELSE <<>>
         IN [bids |-> IF is_buy THEN MapPut(book.bids, order.price, <<resting>> \o lvl(book.bids))
                                ELSE book.bids,
             asks |-> IF is_buy THEN book.asks
                                ELSE MapPut(book.asks, order.price, <<resting>> \o lvl(book.asks)),
             order_index |-> MapPut(book.order_index, order.order_id,
                                    [price |-> order.price, is_buy |-> is_buy])]
    ELSE book

\* "Rest limit orders on book" (lines 144-154)
rest_order(book, order, remaining) ==
    IF remaining > 0 /\ order.order_type = "limit"
    THEN LET resting == [order EXCEPT !.quantity = remaining]
             is_buy == order.side = "buy"
             lvl(m) == IF order.price \in DOMAIN m THEN m[order.price] ELSE <<>>
         IN [bids |-> IF is_buy THEN MapPut(book.bids, order.price, Append(lvl(book.bids), resting))
                                ELSE book.bids,
             asks |-> IF is_buy THEN book.asks
                                ELSE MapPut(book.asks, order.price, Append(lvl(book.asks), resting)),
             order_index |-> MapPut(book.order_index, order.order_id,
                                    [price |-> order.price, is_buy |-> is_buy])]
    ELSE book

\* OrderBook::add_order (lines 40-157): the book after the call, the trades
\* returned and the local `remaining` at the return
add_order(book, order) ==
    LET is_buy == order.side = "buy"
    IN IF order.order_type = "fok" /\ fok_fillable(book, order) < order.quantity
       THEN [book |-> book, trades |-> <<>>, remaining |-> order.quantity]
       ELSE
         LET st0 == [book_map |-> IF is_buy THEN book.asks ELSE book.bids,
                     order_index |-> book.order_index,
                     remaining |-> order.quantity, trades |-> <<>>]
             st == match_against_book(st0, order, ~is_buy)
             matched == [bids |-> IF is_buy THEN book.bids ELSE st.book_map,
                         asks |-> IF is_buy THEN st.book_map ELSE book.asks,
                         order_index |-> st.order_index]
         IN IF order.order_type = "ioc" /\ st.remaining > 0
            THEN [book |-> matched, trades |-> st.trades, remaining |-> st.remaining]
            ELSE IF order.order_type = "fok"
            THEN [book |-> matched,
                  trades |-> IF st.remaining > 0 THEN <<>> ELSE st.trades,
                  remaining |-> st.remaining]
            ELSE [book |-> rest_order(matched, order, st.remaining),
                  trades |-> st.trades, remaining |-> st.remaining]

\* ---------------------------------------------------- OrderBook::cancel_order

\* erase the first order with this id from a level (lines 171-178 / 183-190)
RECURSIVE erase_from_level(_, _)
erase_from_level(dq, order_id) ==
    IF dq = <<>> THEN <<>>
    ELSE IF Head(dq).order_id = order_id THEN Tail(dq)
    ELSE <<Head(dq)>> \o erase_from_level(Tail(dq), order_id)

\* variant: a level emptied by the cancel is left in the map
cancel_order_keep_level(book, order_id) ==
    IF order_id \notin DOMAIN book.order_index THEN [book |-> book, ok |-> FALSE]
    ELSE LET price == book.order_index[order_id].price
             is_buy == book.order_index[order_id].is_buy
             m == IF is_buy THEN book.bids ELSE book.asks
         IN IF price \notin DOMAIN m THEN [book |-> book, ok |-> FALSE]
            ELSE IF \A i \in 1..Len(m[price]) : m[price][i].order_id # order_id
            THEN [book |-> book, ok |-> FALSE]
            ELSE LET dq == erase_from_level(m[price], order_id)
                     m2 == [m EXCEPT ![price] = dq]
                 IN [book |-> [bids |-> IF is_buy THEN m2 ELSE book.bids,
                               asks |-> IF is_buy THEN book.asks ELSE m2,
                               order_index |-> MapErase(book.order_index, order_id)],
                     ok |-> TRUE]

\* OrderBook::cancel_order (lines 159-194)
cancel_order(book, order_id) ==
    IF order_id \notin DOMAIN book.order_index THEN [book |-> book, ok |-> FALSE]
    ELSE LET price == book.order_index[order_id].price
             is_buy == book.order_index[order_id].is_buy
             m == IF is_buy THEN book.bids ELSE book.asks
         IN IF price \notin DOMAIN m THEN [book |-> book, ok |-> FALSE]
            ELSE IF \A i \in 1..Len(m[price]) : m[price][i].order_id # order_id
            THEN [book |-> book, ok |-> FALSE]
            ELSE LET dq == erase_from_level(m[price], order_id)
                     m2 == IF dq = <<>> THEN MapErase(m, price)
                                        ELSE [m EXCEPT ![price] = dq]
                 IN [book |-> [bids |-> IF is_buy THEN m2 ELSE book.bids,
                               asks |-> IF is_buy THEN book.asks ELSE m2,
                               order_index |-> MapErase(book.order_index, order_id)],
                     ok |-> TRUE]

\* ------------------------------------- OrderBook::top_bids / top_asks

\* the loop of top_bids / top_asks (lines 199-203 / 210-214): from begin(),
\* while levels remain and out.size() < n, emit (price, sum of the level)
RECURSIVE top_levels(_, _, _, _, _)
top_levels(m, keys, n, desc, out) ==
    IF keys = {} \/ Len(out) >= n THEN out
    ELSE LET it == IF desc THEN Max(keys) ELSE Min(keys)
             total == SumQty(m[it])
         IN top_levels(m, keys \ {it}, n, desc, Append(out, <<it, total>>))

\* variant: the bid levels are walked from the lowest price
top_bids_ascending(book, n) == top_levels(book.bids, DOMAIN book.bids, n, FALSE, <<>>)

\* OrderBook::top_bids (lines 196-205)
top_bids(book, n) == top_levels(book.bids, DOMAIN book.bids, n, TRUE, <<>>)

\* OrderBook::top_asks (lines 207-216)
top_asks(book, n) == top_levels(book.asks, DOMAIN book.asks, n, FALSE, <<>>)

\* ------------------------------------------------ the OrderBook under calls

NoOrder == Order(0, "none", "none", 0, 0)

\* all resting orders of a book, bids and asks
RECURSIVE SideOrders(_, _, _)
SideOrders(m, keys, desc) ==
    IF keys = {} THEN <<>>
    ELSE LET k == IF desc THEN Max(keys) ELSE Min(keys)
         IN m[k] \o SideOrders(m, keys \ {k}, desc)

BidOrders(book) == SideOrders(book.bids, DOMAIN book.bids, TRUE)
AskOrders(book) == SideOrders(book.asks, DOMAIN book.asks, FALSE)

RestingQtyOf(book, id) ==
    LET all == BidOrders(book) \o AskOrders(book)
        hits == SelectSeq(all, LAMBDA o : o.order_id = id)
    IN SumQty(hits)

BookInit ==
    /\ ob = EmptyBook
    /\ next_order_id = 1
    /\ last = [op |-> "none", order |-> NoOrder, id |-> 0, trades |-> <<>>,
               remaining |-> 0, ok |-> FALSE, pre |-> EmptyBook, n |-> 0, levels |-> <<>>]
    /\ accepted_qty = 0
    /\ traded_qty = 0
    /\ discarded_qty = 0

\* ob.add_order(order) with the next order id
AddOrder(type, side, qty, price) ==
    /\ next_order_id <= MaxOrders
    /\ LET order == Order(next_order_id, type, side, qty, price)
           r == add_order(ob, order)
       IN /\ ob' = r.book
          /\ last' = [op |-> "add_order", order |-> order, id |-> order.order_id,
                      trades |-> r.trades, remaining |-> r.remaining, ok |-> TRUE,
                      pre |-> ob, n |-> 0, levels |-> <<>>]
          /\ accepted_qty' = accepted_qty + qty
          /\ traded_qty' = traded_qty + SumQty(r.trades)
          /\ discarded_qty' = discarded_qty +
                 (IF order.order_id \in DOMAIN r.book.order_index THEN 0 ELSE r.remaining)
    /\ next_order_id' = next_order_id + 1
    /\ UNCHANGED <<engineVars, threads, walVars, stopVars, respVars, bqVars, auxVars>>

AddMarket == \E side \in Sides, qty \in Qtys : AddOrder("market", side, qty, 0)
AddLimit == \E side \in Sides, qty \in Qtys, price \in Prices : AddOrder("limit", side, qty, price)
AddIoc == \E side \in Sides, qty \in Qtys, price \in Prices : AddOrder("ioc", side, qty, price)
AddFok == \E side \in Sides, qty \in Qtys, price \in Prices : AddOrder("fok", side, qty, price)

\* ob.cancel_order(id), for resting, filled, cancelled and unknown ids
CancelOrder ==
    \E id \in 1..MaxOrders :
        LET r == cancel_order(ob, id)
        IN /\ ob' = r.book
           /\ last' = [op |-> "cancel_order", order |-> NoOrder, id |-> id,
                       trades |-> <<>>, remaining |-> 0, ok |-> r.ok, pre |-> ob,
                       n |-> 0, levels |-> <<>>]
           /\ discarded_qty' = discarded_qty + (IF r.ok THEN RestingQtyOf(ob, id) ELSE 0)
           /\ UNCHANGED <<next_order_id, accepted_qty, traded_qty, engineVars, threads, walVars, stopVars, respVars, bqVars, auxVars>>

\* the depths asked of top_bids / top_asks: none, fewer than, as many as and
\* more than the levels a side can have
Depths == 0..(MaxPrice + 1)

\* ob.top_bids(n)
TopBids ==
    \E n \in Depths :
        /\ last' = [op |-> "top_bids", order |-> NoOrder, id |-> 0, trades |-> <<>>,
                    remaining |-> 0, ok |-> TRUE, pre |-> ob, n |-> n,
                    levels |-> top_bids(ob, n)]
        /\ UNCHANGED <<ob, next_order_id, accepted_qty, traded_qty, discarded_qty,
                       engineVars, threads, walVars, stopVars, respVars, bqVars, auxVars>>

\* ob.top_asks(n)
TopAsks ==
    \E n \in Depths :
        /\ last' = [op |-> "top_asks", order |-> NoOrder, id |-> 0, trades |-> <<>>,
                    remaining |-> 0, ok |-> TRUE, pre |-> ob, n |-> n,
                    levels |-> top_asks(ob, n)]
        /\ UNCHANGED <<ob, next_order_id, accepted_qty, traded_qty, discarded_qty,
                       engineVars, threads, walVars, stopVars, respVars, bqVars, auxVars>>

\* ------------------------------------------------------- StopOrderManager

Symbols == {"BTC-USDT", "ETH-USDT"}
StopTypeStrs == {"stop_loss", "stop_limit"}

\* so.best_price of a buy stop built by the POST /orders/stop handler: the
\* source has 999999999999, above every price; held here within TLC's 32-bit
\* integers, it is only stored and compared, never used in arithmetic
BuyBestPriceInit == 999999999

\* values the uninitialised so.trail_amount of the handler may hold
Indeterminate == {0, 1}

EmptyManager == [buy_stops |-> <<>>, sell_stops |-> <<>>, order_index |-> EmptyMap]

\* std::multimap::insert: after the last entry whose key is not greater
multimap_insert(mm, key, stop) ==
    LET n == Cardinality({i \in 1..Len(mm) : mm[i].key <= key})
    IN SubSeq(mm, 1, n) \o <<[key |-> key, stop |-> stop]>> \o SubSeq(mm, n + 1, Len(mm))

\* StopOrderManager::add_stop_order (lines 14-37), for an order that has an id
add_stop_order(mgr, order) ==
    LET stop == IF order.stop_type = "TRAILING_STOP"
                THEN [order EXCEPT !.best_price = order.trigger_price]
                ELSE order
    IN [buy_stops |-> IF stop.side = "buy"
                      THEN multimap_insert(mgr.buy_stops, stop.trigger_price, stop)
                      ELSE mgr.buy_stops,
        sell_stops |-> IF stop.side = "buy"
                       THEN mgr.sell_stops
                       ELSE multimap_insert(mgr.sell_stops, stop.trigger_price, stop),
        order_index |-> MapPut(mgr.order_index, stop.order_id, stop.trigger_price)]

\* position of the first entry of the equal_range of `key` that holds this id, 0 if none
find_in_range(mm, key, order_id) ==
    LET hits == {i \in 1..Len(mm) : mm[i].key = key /\ mm[i].stop.order_id = order_id}
    IN IF hits = {} THEN 0 ELSE Min(hits)

seq_erase(sq, i) == SubSeq(sq, 1, i - 1) \o SubSeq(sq, i + 1, Len(sq))

\* StopOrderManager::cancel_stop_order (lines 53-82)
cancel_stop_order(mgr, order_id) ==
    IF order_id \notin DOMAIN mgr.order_index THEN [mgr |-> mgr, ok |-> FALSE]
    ELSE LET trigger_price == mgr.order_index[order_id]
             b == find_in_range(mgr.buy_stops, trigger_price, order_id)
             s == find_in_range(mgr.sell_stops, trigger_price, order_id)
         IN IF b # 0
            THEN [mgr |-> [mgr EXCEPT !.buy_stops = seq_erase(mgr.buy_stops, b),
                                      !.order_index = MapErase(mgr.order_index, order_id)],
                  ok |-> TRUE]
            ELSE IF s # 0
            THEN [mgr |-> [mgr EXCEPT !.sell_stops = seq_erase(mgr.sell_stops, s),
                                      !.order_index = MapErase(mgr.order_index, order_id)],
                  ok |-> TRUE]
            ELSE [mgr |-> mgr, ok |-> FALSE]

\* variant: a triggered stop-limit order is priced at its trigger price
triggered_order_at_trigger(stop) ==
    [order_id |-> stop.order_id, symbol |-> stop.symbol,
     order_type |-> IF stop.stop_type = "STOP_LIMIT" THEN "limit" ELSE "market",
     side |-> stop.side, quantity |-> stop.quantity,
     price |-> IF stop.stop_type = "STOP_LIMIT" THEN stop.trigger_price ELSE 0]

\* the Order built for a triggered stop (lines 94-107 / 123-136)
triggered_order(stop) ==
    [order_id |-> stop.order_id, symbol |-> stop.symbol,
     order_type |-> IF stop.stop_type = "STOP_LIMIT" THEN "limit" ELSE "market",
     side |-> stop.side, quantity |-> stop.quantity,
     price |-> IF stop.stop_type = "STOP_LIMIT" THEN stop.limit_price ELSE 0]

\* one of the two loops of check_triggers (lines 89-115 / 118-144): from
\* begin(), while the entry's key triggers, convert it, erase it and its index
\* entry; stop at the first entry that does not trigger
RECURSIVE trigger_walk(_, _, _, _, _)
trigger_walk(mm, order_index, triggered_orders, last_trade_price, is_buy) ==
    IF mm = <<>>
    THEN [mm |-> mm, order_index |-> order_index, triggered_orders |-> triggered_orders]
    ELSE IF (is_buy /\ last_trade_price >= Head(mm).key)
            \/ (~is_buy /\ last_trade_price <= Head(mm).key)
    THEN trigger_walk(Tail(mm), MapErase(order_index, Head(mm).stop.order_id),
                      Append(triggered_orders, triggered_order(Head(mm).stop)),
                      last_trade_price, is_buy)
    ELSE [mm |-> mm, order_index |-> order_index, triggered_orders |-> triggered_orders]

\* StopOrderManager::check_triggers (lines 84-147)
check_triggers(mgr, last_trade_price) ==
    LET b == trigger_walk(mgr.buy_stops, mgr.order_index, <<>>, last_trade_price, TRUE)
        s == trigger_walk(mgr.sell_stops, b.order_index, b.triggered_orders,
                          last_trade_price, FALSE)
    IN [mgr |-> [buy_stops |-> b.mm, sell_stops |-> s.mm, order_index |-> s.order_index],
        triggered_orders |-> s.triggered_orders]

\* one stop under update_trailing_stops (lines 154-161 / 166-173): the stored
\* StopOrder is changed in place, its multimap key is not
update_trailing_stop(stop, current_price, is_buy) ==
    IF stop.stop_type = "TRAILING_STOP"
       /\ ((is_buy /\ current_price < stop.best_price)
           \/ (~is_buy /\ current_price > stop.best_price))
    THEN [stop EXCEPT !.best_price = current_price,
                      !.trigger_price = IF is_buy THEN current_price + stop.trail_amount
                                                  ELSE current_price - stop.trail_amount]
    ELSE stop

\* StopOrderManager::update_trailing_stops (lines 149-175)
update_trailing_stops(mgr, current_price) ==
    [buy_stops |-> [i \in 1..Len(mgr.buy_stops) |->
                       [key |-> mgr.buy_stops[i].key,
                        stop |-> update_trailing_stop(mgr.buy_stops[i].stop, current_price, TRUE)]],
     sell_stops |-> [i \in 1..Len(mgr.sell_stops) |->
                       [key |-> mgr.sell_stops[i].key,
                        stop |-> update_trailing_stop(mgr.sell_stops[i].stop, current_price, FALSE)]],
     order_index |-> mgr.order_index]

\* ------------------------------------------ the StopOrderManager under calls

MaxStops == 2

StopTypes == {"STOP_LOSS", "STOP_LIMIT", "TRAILING_STOP"}

\* trail amounts of trailing stops: none, and as wide as the price range
TrailAmounts == {0, MaxPrice}

\* the prices given to check_triggers and update_trailing_stops
TradePrices == Prices

\* a StopOrder as a caller of add_stop_order fills it in
StopOrder(id, stop_type, side, trigger_price, limit_price, trail_amount) ==
    [order_id |-> id, symbol |-> BookSymbol, stop_type |-> stop_type, side |-> side,
     trigger_price |-> trigger_price, limit_price |-> limit_price, quantity |-> 1,
     trail_amount |-> trail_amount, best_price |-> 0]

NoStopOrder == StopOrder(0, "none", "none", 0, 0, 0)

StopInit ==
    /\ som = EmptyManager
    /\ som_next_id = 1
    /\ som_last = [op |-> "none", stop |-> NoStopOrder, id |-> 0, price |-> 0,
                   triggered_orders |-> <<>>, ok |-> FALSE, pre |-> EmptyManager]

\* som.add_stop_order(order) with the next id
SomAdd(stop_type, side, trigger_price, limit_price, trail_amount) ==
    /\ som_next_id <= MaxStops
    /\ LET order == StopOrder(som_next_id, stop_type, side, trigger_price, limit_price,
                              trail_amount)
       IN /\ som' = add_stop_order(som, order)
          /\ som_last' = [op |-> "add_stop_order", stop |-> order, id |-> order.order_id,
                          price |-> 0, triggered_orders |-> <<>>, ok |-> TRUE, pre |-> som]
    /\ som_next_id' = som_next_id + 1
    /\ UNCHANGED <<bookVars, engineVars, threads, walVars, respVars, bqVars, auxVars>>

SomAddStopLoss ==
    \E side \in Sides, trigger_price \in Prices :
        SomAdd("STOP_LOSS", side, trigger_price, 0, 0)

SomAddStopLimit ==
    \E side \in Sides, trigger_price \in Prices, limit_price \in Prices :
        SomAdd("STOP_LIMIT", side, trigger_price, limit_price, 0)

SomAddTrailing ==
    \E side \in Sides, trigger_price \in Prices, trail_amount \in TrailAmounts :
        SomAdd("TRAILING_STOP", side, trigger_price, 0, trail_amount)

\* som.cancel_stop_order(id), for stored, triggered, cancelled and unknown ids
SomCancel ==
    \E id \in 1..MaxStops :
        LET r == cancel_stop_order(som, id)
        IN /\ som' = r.mgr
           /\ som_last' = [op |-> "cancel_stop_order", stop |-> NoStopOrder, id |-> id,
                           price |-> 0, triggered_orders |-> <<>>, ok |-> r.ok, pre |-> som]
           /\ UNCHANGED <<som_next_id, bookVars, engineVars, threads, walVars, respVars, bqVars, auxVars>>

\* som.check_triggers(last_trade_price)
SomCheckTriggers ==
    \E last_trade_price \in TradePrices :
        LET r == check_triggers(som, last_trade_price)
        IN /\ som' = r.mgr
           /\ som_last' = [op |-> "check_triggers", stop |-> NoStopOrder, id |-> 0,
                           price |-> last_trade_price,
                           triggered_orders |-> r.triggered_orders, ok |-> TRUE, pre |-> som]
           /\ UNCHANGED <<som_next_id, bookVars, engineVars, threads, walVars, respVars, bqVars, auxVars>>

\* som.update_trailing_stops(current_price)
SomUpdateTrailing ==
    \E current_price \in TradePrices :
        /\ som' = update_trailing_stops(som, current_price)
        /\ som_last' = [op |-> "update_trailing_stops", stop |-> NoStopOrder, id |-> 0,
                        price |-> current_price, triggered_orders |-> <<>>, ok |-> TRUE,
                        pre |-> som]
        /\ UNCHANGED <<som_next_id, bookVars, engineVars, threads, walVars, respVars, bqVars, auxVars>>

\* ------------------------------------------------------------- WAL records

\* order_json of the POST /orders handler (lines 137-141)
order_to_json(o) ==
    [order_id |-> o.order_id, symbol |-> o.symbol, order_type |-> o.order_type,
     side |-> o.side, quantity |-> o.quantity, price |-> o.price]

\* Order::from_json (order.h lines 22-40)
order_from_json(j) ==
    [order_id |-> j.order_id, symbol |-> j.symbol, order_type |-> j.order_type,
     side |-> j.side, quantity |-> j.quantity, price |-> j.price]

\* the StopOrder built by the POST /orders/stop handler (lines 247-267)
make_stop_order(id, symbol, stop_type_str, side, quantity, trigger_price, limit_price, trail) ==
    [order_id |-> id, symbol |-> symbol,
     stop_type |-> IF stop_type_str = "stop_limit" THEN "STOP_LIMIT" ELSE "STOP_LOSS",
     side |-> side, trigger_price |-> trigger_price,
     limit_price |-> IF stop_type_str = "stop_limit" THEN limit_price ELSE 0,
     quantity |-> quantity, trail_amount |-> trail,
     best_price |-> IF side = "buy" THEN BuyBestPriceInit ELSE 0]

\* order_json of the POST /orders/stop handler (lines 268-273)
stop_to_json(so, stop_type_str) ==
    [order_id |-> so.order_id, symbol |-> so.symbol, order_type |-> "stop",
     stop_type |-> stop_type_str, side |-> so.side, quantity |-> so.quantity,
     trigger_price |-> so.trigger_price, limit_price |-> so.limit_price]

\* variant: the limit price of a stop-limit order is not read back
stop_from_json_no_limit(j) ==
    [order_id |-> j.order_id, symbol |-> j.symbol,
     stop_type |-> IF j.stop_type = "stop_limit" THEN "STOP_LIMIT" ELSE "STOP_LOSS",
     side |-> j.side, trigger_price |-> j.trigger_price,
     limit_price |-> 0,
     quantity |-> j.quantity, trail_amount |-> 0,
     best_price |-> j.trigger_price]

\* StopOrder::from_json (stop_order_manager.h lines 44-67)
stop_from_json(j) ==
    [order_id |-> j.order_id, symbol |-> j.symbol,
     stop_type |-> IF j.stop_type = "stop_limit" THEN "STOP_LIMIT" ELSE "STOP_LOSS",
     side |-> j.side, trigger_price |-> j.trigger_price,
     limit_price |-> IF j.stop_type = "stop_limit" THEN j.limit_price ELSE 0,
     quantity |-> j.quantity, trail_amount |-> 0,
     best_price |-> j.trigger_price]

\* trade_json of the POST /orders handler (lines 162-168)
trade_to_json(t) ==
    [price |-> t.price, quantity |-> t.quantity, aggressor_side |-> t.aggressor_side,
     maker_order_id |-> t.maker_order_id, taker_order_id |-> t.taker_order_id]

\* WAL::append_order / append_trade / append_cancel (wal.cpp lines 128-156)
wal_order(order_json) == [type |-> "order", payload |-> order_json]
wal_trade(trade_json) == [type |-> "trade", payload |-> trade_json]
wal_cancel(order_id, reason) ==
    [type |-> "cancel", payload |-> [order_id |-> order_id, reason |-> reason]]

wal_trades(trades) == [i \in 1..Len(trades) |-> wal_trade(trade_to_json(trades[i]))]

\* ----------------------------------------------------------- engine state

\* unordered_map::try_emplace(symbol, symbol)
try_emplace(m, symbol, fresh) == IF symbol \in DOMAIN m THEN m ELSE MapPut(m, symbol, fresh)

ord_id(n) == <<"ORD", n>>
sto_id(n) == <<"STO", n>>

\* stop orders posted to the engine
MaxStopOrders == 1

OrderIds ==
    {ord_id(n) : n \in 1..(MaxEngineOrders + MaxStopOrders)}
    \cup {sto_id(n) : n \in 1..(MaxEngineOrders + MaxStopOrders)}

\* the orders and the stop orders posted so far
NumOrders == Cardinality({i \in 1..Len(wal) : wal[i].type = "order"
                                               /\ wal[i].payload.order_type # "stop"})
NumStopOrders == Cardinality({i \in 1..Len(wal) : wal[i].type = "order"
                                                   /\ wal[i].payload.order_type = "stop"})

NoResponse ==
    [op |-> "none", code |-> 0, order_id |-> <<"none", 0>>, symbol |-> "none",
     order_type |-> "none", quantity |-> 0, status |-> "none", trades |-> <<>>,
     filled_quantity |-> 0, remaining_quantity |-> 0]

RespInit ==
    /\ res = NoResponse
    /\ g_broadcast_queue = <<>>

EngineInit ==
    /\ g_order_books = EmptyMap
    /\ g_stop_order_managers = EmptyMap
    /\ g_order_id_to_symbol = EmptyMap
    /\ g_total_orders = 0
    /\ g_total_trades = 0
    /\ wal = <<>>

\* ------------------------------------------------------------- replay_wal

\* one entry of the replay loop (main.cpp lines 44-99)
\* st = [books, stops, order_to_symbol]
replay_entry(st, entry) ==
    IF entry.type = "order"
    THEN LET symbol == entry.payload.symbol
             books == try_emplace(st.books, symbol, EmptyBook)
             stops == try_emplace(st.stops, symbol, EmptyManager)
         IN IF entry.payload.order_type = "stop"
            THEN LET stop_order == stop_from_json(entry.payload)
                 IN [books |-> books,
                     stops |-> [stops EXCEPT ![symbol] = add_stop_order(stops[symbol], stop_order)],
                     order_to_symbol |-> MapPut(st.order_to_symbol, stop_order.order_id, symbol)]
            ELSE LET order == order_from_json(entry.payload)
                 IN [books |-> [books EXCEPT ![symbol] = add_order(books[symbol], order).book],
                     stops |-> stops,
                     order_to_symbol |-> MapPut(st.order_to_symbol, order.order_id, symbol)]
    ELSE IF entry.type = "cancel"
    THEN LET order_id == entry.payload.order_id
         IN IF order_id \in DOMAIN st.order_to_symbol
            THEN LET symbol == st.order_to_symbol[order_id]
                 IN [books |-> [st.books EXCEPT
                                  ![symbol] = cancel_order(st.books[symbol], order_id).book],
                     stops |-> [st.stops EXCEPT
                                  ![symbol] = cancel_stop_order(st.stops[symbol], order_id).mgr],
                     order_to_symbol |-> MapErase(st.order_to_symbol, order_id)]
            ELSE st
    ELSE st

RECURSIVE replay_entries(_, _)
replay_entries(st, entries) ==
    IF entries = <<>> THEN st
    ELSE replay_entries(replay_entry(st, Head(entries)), Tail(entries))

\* replay_wal (main.cpp lines 28-112) on a fresh engine
replay_wal(entries) ==
    replay_entries([books |-> EmptyMap, stops |-> EmptyMap, order_to_symbol |-> EmptyMap],
                   entries)

\* --------------------------------------- request handlers, one at a time

\* variant: an IOC order that filled nothing is reported open
order_status_ioc_open(order_type, quantity, filled_qty) ==
    LET remaining_qty == Max({0, quantity - filled_qty})
    IN IF order_type = "fok"
       THEN (IF filled_qty = quantity THEN "filled" ELSE "cancelled")
       ELSE IF order_type = "market"
       THEN (IF filled_qty = 0 THEN "cancelled"
             ELSE IF remaining_qty > 0 THEN "partially_filled" ELSE "filled")
       ELSE (IF remaining_qty = 0 THEN "filled"
             ELSE IF filled_qty > 0 THEN "partially_filled" ELSE "open")

\* the status of the POST /orders response (server.cpp lines 189-205)
order_status(order_type, quantity, filled_qty) ==
    LET remaining_qty == Max({0, quantity - filled_qty})
    IN IF order_type = "fok"
       THEN (IF filled_qty = quantity THEN "filled" ELSE "cancelled")
       ELSE IF order_type = "ioc"
       THEN (IF filled_qty = 0 /\ remaining_qty > 0 THEN "cancelled"
             ELSE IF remaining_qty = 0 THEN "filled" ELSE "partially_filled")
       ELSE IF order_type = "market"
       THEN (IF filled_qty = 0 THEN "cancelled"
             ELSE IF remaining_qty > 0 THEN "partially_filled" ELSE "filled")
       ELSE (IF remaining_qty = 0 THEN "filled"
             ELSE IF filled_qty > 0 THEN "partially_filled" ELSE "open")

push_trade(trade_json) == [type |-> "trade", symbol |-> "none", payload |-> trade_json]
push_book_update(symbol) == [type |-> "book_update", symbol |-> symbol, payload |-> <<>>]

\* the pushes of POST /orders after matching (server.cpp lines 174-187)
broadcast_trades(ws_running, symbol, trades) ==
    IF ws_running /\ Len(trades) > 0
    THEN [i \in 1..Len(trades) |-> push_trade(trade_to_json(trades[i]))]
         \o <<push_book_update(symbol)>>
    ELSE <<>>

\* POST /orders (server.cpp lines 69-228), for a validated request;
\* ws_running: g_ws_server is set and running and g_broadcast_queue takes pushes
PostOrder(symbol, order_type, side, quantity, price) ==
    /\ NumOrders < MaxEngineOrders
    /\ LET o == [order_id |-> ord_id(g_total_orders + 1), symbol |-> symbol,
                 order_type |-> order_type, side |-> side, quantity |-> quantity,
                 price |-> price]
           books == try_emplace(g_order_books, symbol, EmptyBook)
           r == add_order(books[symbol], o)
           filled_qty == SumQty(r.trades)
       IN /\ g_total_orders' = g_total_orders + 1
          /\ g_order_id_to_symbol' = MapPut(g_order_id_to_symbol, o.order_id, symbol)
          /\ g_order_books' = [books EXCEPT ![symbol] = r.book]
          /\ g_total_trades' = g_total_trades + Len(r.trades)
          /\ wal' = Append(wal, wal_order(order_to_json(o))) \o wal_trades(r.trades)
          /\ g_broadcast_queue' \in {broadcast_trades(ws_running, symbol, r.trades) :
                                          ws_running \in BOOLEAN}
          /\ res' = [op |-> "submit", code |-> 200, order_id |-> o.order_id,
                     symbol |-> symbol, order_type |-> order_type,
                     quantity |-> quantity,
                     status |-> order_status(order_type, quantity, filled_qty),
                     trades |-> [i \in 1..Len(r.trades) |-> trade_to_json(r.trades[i])],
                     filled_quantity |-> filled_qty,
                     remaining_quantity |-> Max({0, quantity - filled_qty})]
    /\ UNCHANGED <<g_stop_order_managers, bookVars, threads, walVars, stopVars, bqVars, auxVars>>

\* the validated order requests served: on the first symbol sell limit orders
\* of quantity 1 at every price, which rest, and buy orders of every type that
\* meet them: a limit order of the largest quantity at the lowest price, a
\* market order and an IOC order of the largest quantity and a FOK order of
\* quantity 1; on the second symbol one sell limit order
OrderRequests ==
    {[symbol |-> "BTC-USDT", order_type |-> "limit", side |-> "sell", quantity |-> 1,
      price |-> pr] : pr \in Prices}
    \cup
    {[symbol |-> "BTC-USDT", order_type |-> "limit", side |-> "buy", quantity |-> MaxQty,
      price |-> 1],
     [symbol |-> "BTC-USDT", order_type |-> "market", side |-> "buy", quantity |-> MaxQty,
      price |-> 0],
     [symbol |-> "BTC-USDT", order_type |-> "ioc", side |-> "buy", quantity |-> MaxQty,
      price |-> MaxPrice],
     [symbol |-> "BTC-USDT", order_type |-> "fok", side |-> "buy", quantity |-> 1,
      price |-> MaxPrice],
     [symbol |-> "ETH-USDT", order_type |-> "limit", side |-> "sell", quantity |-> 1,
      price |-> 1]}

\* the stop requests served, on the first symbol, of quantity 1 and at the
\* lowest trigger: a buy stop-loss order and a buy stop-limit order
StopRequests ==
    {[symbol |-> "BTC-USDT", stop_type |-> "stop_loss", side |-> "buy", quantity |-> 1,
      trigger_price |-> 1, limit_price |-> 0],
     [symbol |-> "BTC-USDT", stop_type |-> "stop_limit", side |-> "buy", quantity |-> 1,
      trigger_price |-> 1, limit_price |-> 1]}

PostAnyOrder ==
    \E req \in OrderRequests :
        PostOrder(req.symbol, req.order_type, req.side, req.quantity, req.price)

\* POST /orders/stop (server.cpp lines 231-293), for a well-formed request
PostStopOrder ==
    \E req \in StopRequests, trail \in Indeterminate :
        /\ NumStopOrders < MaxStopOrders
        /\ LET so == make_stop_order(sto_id(g_total_orders + 1), req.symbol, req.stop_type,
                                     req.side, req.quantity, req.trigger_price,
                                     req.limit_price, trail)
               mgrs == try_emplace(g_stop_order_managers, req.symbol, EmptyManager)
           IN /\ g_total_orders' = g_total_orders + 1
              /\ wal' = Append(wal, wal_order(stop_to_json(so, req.stop_type)))
              /\ g_order_id_to_symbol' = MapPut(g_order_id_to_symbol, so.order_id, req.symbol)
              /\ g_stop_order_managers' =
                     [mgrs EXCEPT ![req.symbol] = add_stop_order(mgrs[req.symbol], so)]
              /\ res' = [NoResponse EXCEPT !.op = "stop", !.code = 200,
                                           !.order_id = so.order_id, !.symbol = req.symbol,
                                           !.order_type = "stop", !.quantity = req.quantity,
                                           !.status = "accepted"]
              /\ g_broadcast_queue' = <<>>
        /\ UNCHANGED <<g_order_books, g_total_trades, bookVars, threads, walVars, stopVars, bqVars, auxVars>>

\* the two cancel calls of DELETE /orders (server.cpp lines 314-328)
\* variant: the cancels report what they found and leave books and managers as they are
cancel_both_keep(books, mgrs, symbol, order_id) ==
    [books |-> books, mgrs |-> mgrs,
     cancelled_book |-> symbol \in DOMAIN books /\ cancel_order(books[symbol], order_id).ok,
     cancelled_stop |-> symbol \in DOMAIN mgrs /\ cancel_stop_order(mgrs[symbol], order_id).ok]

cancel_both(books, mgrs, symbol, order_id) ==
    LET cb == IF symbol \in DOMAIN books THEN cancel_order(books[symbol], order_id)
                                         ELSE [book |-> EmptyBook, ok |-> FALSE]
        cs == IF symbol \in DOMAIN mgrs THEN cancel_stop_order(mgrs[symbol], order_id)
                                        ELSE [mgr |-> EmptyManager, ok |-> FALSE]
    IN [books |-> IF symbol \in DOMAIN books THEN [books EXCEPT ![symbol] = cb.book] ELSE books,
        mgrs |-> IF symbol \in DOMAIN mgrs THEN [mgrs EXCEPT ![symbol] = cs.mgr] ELSE mgrs,
        cancelled_book |-> cb.ok, cancelled_stop |-> cs.ok]

\* variant: the cancel record is written whether or not anything was cancelled
cancel_records_always(order_id, cancelled) == <<wal_cancel(order_id, "user_request")>>

\* the WAL records of DELETE /orders (server.cpp lines 328-331)
cancel_records(order_id, cancelled) ==
    IF cancelled THEN <<wal_cancel(order_id, "user_request")>> ELSE <<>>

\* the push of DELETE /orders (server.cpp lines 338-346); book_ptr is set
\* when a book exists for the symbol (lines 319-320)
broadcast_cancel(ws_running, symbol, book_ptr) ==
    IF ws_running /\ book_ptr THEN <<push_book_update(symbol)>> ELSE <<>>

\* DELETE /orders/<id> (server.cpp lines 297-364);
\* ws_running: g_ws_server is set and running and g_broadcast_queue takes pushes
DeleteOrderId(order_id) ==
    IF order_id \notin DOMAIN g_order_id_to_symbol
    THEN /\ res' = [NoResponse EXCEPT !.op = "cancel", !.code = 404,
                                      !.status = "error"]
         /\ g_broadcast_queue' = <<>>
         /\ UNCHANGED <<engineVars, bookVars, threads, walVars, stopVars, bqVars, auxVars>>
    ELSE LET symbol == g_order_id_to_symbol[order_id]
             c == cancel_both(g_order_books, g_stop_order_managers, symbol, order_id)
             cancelled == c.cancelled_book \/ c.cancelled_stop
         IN /\ g_order_books' = c.books
            /\ g_stop_order_managers' = c.mgrs
            /\ wal' = wal \o cancel_records(order_id, cancelled)
            /\ g_order_id_to_symbol' =
                   IF cancelled THEN MapErase(g_order_id_to_symbol, order_id)
                                ELSE g_order_id_to_symbol
            /\ g_broadcast_queue' \in
                   IF cancelled
                   THEN {broadcast_cancel(ws_running, symbol,
                                          symbol \in DOMAIN g_order_books) :
                            ws_running \in BOOLEAN}
                   ELSE {<<>>}
            /\ res' = IF cancelled
                      THEN [NoResponse EXCEPT !.op = "cancel", !.code = 200,
                                              !.order_id = order_id, !.symbol = symbol,
                                              !.status = "cancelled"]
                      ELSE [NoResponse EXCEPT !.op = "cancel", !.code = 404,
                                              !.status = "error"]
            /\ UNCHANGED <<g_total_orders, g_total_trades, bookVars, threads, walVars, stopVars, bqVars, auxVars>>

\* the ids asked to be cancelled: every id handed out so far, and one that
\* never was
DeleteIds ==
    {wal[i].payload.order_id : i \in {k \in 1..Len(wal) : wal[k].type = "order"}}
    \cup {ord_id(0)}

DeleteOrder == \E order_id \in DeleteIds : DeleteOrderId(order_id)

\* the process is stopped and started again: the globals are constructed anew
\* (global_state.cpp lines 9-14) and main runs replay_wal before it starts the
\* servers (main.cpp lines 132-139); the WAL file is kept. The map
\* g_order_id_to_symbol of the server is declared outside these sources: it is
\* the map replay_wal fills, or a map of its own that starts empty.
Restart ==
    LET r == replay_wal(wal)
    IN /\ g_order_books' = r.books
       /\ g_stop_order_managers' = r.stops
       /\ g_order_id_to_symbol' \in {r.order_to_symbol, EmptyMap}
       /\ g_total_orders' = 0
       /\ g_total_trades' = 0
       /\ res' = NoResponse
       /\ g_broadcast_queue' = <<>>
       /\ UNCHANGED <<wal, bookVars, threads, walVars, stopVars, bqVars, auxVars>>

\* ------------------------------ request handlers on concurrent threads

Threads == {"t1", "t2"}

NoEngineOrder == [order_id |-> <<"none", 0>>, symbol |-> "none", order_type |-> "none",
                  side |-> "none", quantity |-> 0, price |-> 0]

IdleThread == [pc |-> "idle", o |-> NoEngineOrder, order_id |-> <<"none", 0>>,
               symbol |-> "none", trades |-> <<>>]

\* the order requests served concurrently: limit orders at every price and
\* market orders, of either side and of quantity 1, on one symbol
ConcOrderRequests ==
    {[symbol |-> "BTC-USDT", order_type |-> "limit", side |-> sd, quantity |-> 1,
      price |-> pr] : sd \in Sides, pr \in Prices}
    \cup
    {[symbol |-> "BTC-USDT", order_type |-> "market", side |-> sd, quantity |-> 1,
      price |-> 0] : sd \in Sides}

\* POST /orders, order creation (server.cpp lines 129-136): the id is taken
\* with g_total_orders.fetch_add
PostCreate(t) ==
    \E req \in ConcOrderRequests :
        /\ threads[t].pc = "idle"
        /\ g_total_orders < MaxEngineOrders
        /\ g_total_orders' = g_total_orders + 1
        /\ threads' = [threads EXCEPT ![t] =
              [IdleThread EXCEPT !.pc = "append_order",
                                 !.o = [order_id |-> ord_id(g_total_orders + 1),
                                        symbol |-> req.symbol, order_type |-> req.order_type,
                                        side |-> req.side, quantity |-> req.quantity,
                                        price |-> req.price],
                                 !.symbol = req.symbol]]
        /\ UNCHANGED <<g_order_books, g_stop_order_managers, g_order_id_to_symbol,
                       g_total_trades, wal, bookVars, walVars, stopVars, respVars, bqVars, auxVars>>

\* variant: the order record is not handed to the WAL
PostAppendOrder_dropped(t) ==
    /\ threads[t].pc = "append_order"
    /\ threads' = [threads EXCEPT ![t].pc = "get_book"]
    /\ UNCHANGED <<g_order_books, g_stop_order_managers, g_order_id_to_symbol,
                   g_total_orders, g_total_trades, wal, bookVars, walVars, stopVars, respVars, bqVars, auxVars>>

\* POST /orders, global_wal.append_order (server.cpp lines 137-142)
PostAppendOrder(t) ==
    /\ threads[t].pc = "append_order"
    /\ wal' = Append(wal, wal_order(order_to_json(threads[t].o)))
    /\ threads' = [threads EXCEPT ![t].pc = "get_book"]
    /\ UNCHANGED <<g_order_books, g_stop_order_managers, g_order_id_to_symbol,
                   g_total_orders, g_total_trades, bookVars, walVars, stopVars, respVars, bqVars, auxVars>>

\* POST /orders, the block under g_global_mutex (server.cpp lines 146-151)
PostGetBook(t) ==
    /\ threads[t].pc = "get_book"
    /\ g_order_books' = try_emplace(g_order_books, threads[t].symbol, EmptyBook)
    /\ g_order_id_to_symbol' =
           MapPut(g_order_id_to_symbol, threads[t].o.order_id, threads[t].symbol)
    /\ threads' = [threads EXCEPT ![t].pc = "add_order"]
    /\ UNCHANGED <<g_stop_order_managers, g_total_orders, g_total_trades, wal, bookVars, walVars, stopVars, respVars, bqVars, auxVars>>

\* POST /orders, book_ptr->add_order under the book's mutex (server.cpp lines 154-155)
PostAddOrder(t) ==
    /\ threads[t].pc = "add_order"
    /\ LET r == add_order(g_order_books[threads[t].symbol], threads[t].o)
       IN /\ g_order_books' = [g_order_books EXCEPT ![threads[t].symbol] = r.book]
          /\ g_total_trades' = g_total_trades + Len(r.trades)
          /\ threads' = [threads EXCEPT
                ![t] = IF r.trades = <<>> THEN IdleThread
                       ELSE [threads[t] EXCEPT !.pc = "append_trade", !.trades = r.trades]]
    /\ UNCHANGED <<g_stop_order_managers, g_order_id_to_symbol, g_total_orders, wal, bookVars, walVars, stopVars, respVars, bqVars, auxVars>>

\* POST /orders, global_wal.append_trade for the next trade (server.cpp lines 160-171)
PostAppendTrade(t) ==
    /\ threads[t].pc = "append_trade"
    /\ wal' = Append(wal, wal_trade(trade_to_json(Head(threads[t].trades))))
    /\ threads' = [threads EXCEPT
          ![t] = IF Tail(threads[t].trades) = <<>> THEN IdleThread
                 ELSE [threads[t] EXCEPT !.trades = Tail(threads[t].trades)]]
    /\ UNCHANGED <<g_order_books, g_stop_order_managers, g_order_id_to_symbol,
                   g_total_orders, g_total_trades, bookVars, walVars, stopVars, respVars, bqVars, auxVars>>

\* DELETE /orders/<id>, the lookup under g_global_mutex (server.cpp lines 300-312);
\* an unknown id is answered 404 at once
DeleteLookup(t) ==
    \E order_id \in OrderIds :
        /\ threads[t].pc = "idle"
        /\ threads' = [threads EXCEPT
              ![t] = IF order_id \in DOMAIN g_order_id_to_symbol
                     THEN [IdleThread EXCEPT !.pc = "cancel", !.order_id = order_id,
                                             !.symbol = g_order_id_to_symbol[order_id]]
                     ELSE IdleThread]
        /\ UNCHANGED <<engineVars, bookVars, walVars, stopVars, respVars, bqVars, auxVars>>

\* DELETE /orders/<id>, the two cancels under g_global_mutex (server.cpp lines 314-328)
DeleteCancel(t) ==
    /\ threads[t].pc = "cancel"
    /\ LET c == cancel_both(g_order_books, g_stop_order_managers,
                            threads[t].symbol, threads[t].order_id)
       IN /\ g_order_books' = c.books
          /\ g_stop_order_managers' = c.mgrs
          /\ threads' = [threads EXCEPT
                ![t] = IF c.cancelled_book \/ c.cancelled_stop
                       THEN [threads[t] EXCEPT !.pc = "append_cancel"]
                       ELSE IdleThread]
    /\ UNCHANGED <<g_order_id_to_symbol, g_total_orders, g_total_trades, wal, bookVars, walVars, stopVars, respVars, bqVars, auxVars>>

\* DELETE /orders/<id>, global_wal.append_cancel (server.cpp lines 330-331)
DeleteAppendCancel(t) ==
    /\ threads[t].pc = "append_cancel"
    /\ wal' = Append(wal, wal_cancel(threads[t].order_id, "user_request"))
    /\ threads' = [threads EXCEPT ![t].pc = "erase_id"]
    /\ UNCHANGED <<g_order_books, g_stop_order_managers, g_order_id_to_symbol,
                   g_total_orders, g_total_trades, bookVars, walVars, stopVars, respVars, bqVars, auxVars>>

\* DELETE /orders/<id>, g_order_id_to_symbol.erase under g_global_mutex (lines 332-335)
DeleteEraseId(t) ==
    /\ threads[t].pc = "erase_id"
    /\ g_order_id_to_symbol' = MapErase(g_order_id_to_symbol, threads[t].order_id)
    /\ threads' = [threads EXCEPT ![t] = IdleThread]
    /\ UNCHANGED <<g_order_books, g_stop_order_managers, g_total_orders, g_total_trades,
                   wal, bookVars, walVars, stopVars, respVars, bqVars, auxVars>>

\* ------------------------------------------------------------------- WAL
\* src/src/wal.cpp: producers push lines onto queue_ under mu_, the writer
\* thread swaps the queue out under mu_ and writes the batch to ofs_

MaxAppends == 2

Appenders == {"a1", "a2"}
Lines == 1..MaxAppends

IdleAppender == [pc |-> "idle", line |-> 0]

WalInit ==
    /\ running_ = TRUE
    /\ queue_ = <<>>
    /\ mu_ = "free"
    /\ ofs_ = [is_open |-> TRUE, lines |-> <<>>]
    /\ writer_thread_ = [pc |-> "loop", local_queue |-> <<>>, batch |-> 0]
    /\ appenders = [a \in Appenders |-> IdleAppender]
    /\ stopper = [pc |-> "idle"]
    /\ admin = [pc |-> "idle"]
    /\ hist = [next_line |-> 1, pushed |-> {}, refused |-> {}, returned |-> {},
               hb |-> {}, lost |-> {}, pushed_at_return |-> {}]

\* cv_.notify_one(): wakes the writer if it is blocked in cv_.wait, else nothing
notify_one(wt) == IF wt.pc = "waiting" THEN [wt EXCEPT !.pc = "woken"] ELSE wt

\* variant: the line is put at the head of the queue
queue_push_front(q, line) == <<line>> \o q

\* queue_.push(std::move(line)) (line 66)
queue_push(q, line) == Append(q, line)

\* ---- WAL::append_json (lines 57-72)

\* line 58: the running_ check, outside the lock; a refused call returns at
\* once, without a push and without a signal, however often it is made
AppendCheck(a) ==
    /\ appenders[a].pc = "idle"
    /\ LET line == hist.next_line
           h == [hist EXCEPT !.next_line = line + 1,
                             !.hb = hist.hb \cup {<<e, line>> : e \in hist.returned}]
       IN IF running_
          THEN /\ line <= MaxAppends
               /\ appenders' = [appenders EXCEPT ![a] = [pc |-> "push", line |-> line]]
               /\ hist' = h
          ELSE /\ appenders' = appenders
               /\ hist' = IF line <= MaxAppends
                          THEN [h EXCEPT !.refused = hist.refused \cup {line},
                                         !.returned = hist.returned \cup {line}]
                          ELSE hist
    /\ UNCHANGED <<running_, queue_, mu_, ofs_, writer_thread_, stopper, admin,
                   bookVars, engineVars, threads, stopVars, respVars, bqVars, auxVars>>

\* lines 63-67: lock_guard, queue_.push, unlock
AppendPush(a) ==
    /\ appenders[a].pc = "push"
    /\ mu_ = "free"
    /\ queue_' = queue_push(queue_, appenders[a].line)
    /\ appenders' = [appenders EXCEPT ![a].pc = "notify"]
    /\ hist' = [hist EXCEPT !.pushed = hist.pushed \cup {appenders[a].line}]
    /\ UNCHANGED <<running_, mu_, ofs_, writer_thread_, stopper, admin,
                   bookVars, engineVars, threads, stopVars, respVars, bqVars, auxVars>>

\* lines 70-71: cv_.notify_one, return
AppendNotify(a) ==
    /\ appenders[a].pc = "notify"
    /\ writer_thread_' = notify_one(writer_thread_)
    /\ appenders' = [appenders EXCEPT ![a] = IdleAppender]
    /\ hist' = [hist EXCEPT !.returned = hist.returned \cup {appenders[a].line}]
    /\ UNCHANGED <<running_, queue_, mu_, ofs_, stopper, admin,
                   bookVars, engineVars, threads, stopVars, respVars, bqVars, auxVars>>

\* ---- WAL::writer_thread_loop (lines 74-121)

\* line 77: while (running_.load())
WriterLoop ==
    /\ writer_thread_.pc = "loop"
    /\ writer_thread_' = [writer_thread_ EXCEPT !.pc = IF running_ THEN "lock" ELSE "final"]
    /\ UNCHANGED <<running_, queue_, mu_, ofs_, appenders, stopper, admin, hist,
                   bookVars, engineVars, threads, stopVars, respVars, bqVars, auxVars>>

\* line 79: unique_lock lk(mu_); also the re-lock of cv_.wait after a wake-up
WriterLock ==
    /\ writer_thread_.pc \in {"lock", "woken"}
    /\ mu_ = "free"
    /\ mu_' = "writer"
    /\ writer_thread_' = [writer_thread_ EXCEPT !.pc = "pred"]
    /\ UNCHANGED <<running_, queue_, ofs_, appenders, stopper, admin, hist,
                   bookVars, engineVars, threads, stopVars, respVars, bqVars, auxVars>>

\* line 81: cv_.wait evaluates its predicate with the lock held
WriterPred ==
    /\ writer_thread_.pc = "pred"
    /\ writer_thread_' = [writer_thread_ EXCEPT
          !.pc = IF queue_ # <<>> \/ ~running_ THEN "check" ELSE "block"]
    /\ UNCHANGED <<running_, queue_, mu_, ofs_, appenders, stopper, admin, hist,
                   bookVars, engineVars, threads, stopVars, respVars, bqVars, auxVars>>

\* line 81: the predicate was false: cv_.wait releases the lock and blocks
WriterBlock ==
    /\ writer_thread_.pc = "block"
    /\ mu_' = "free"
    /\ writer_thread_' = [writer_thread_ EXCEPT !.pc = "waiting"]
    /\ UNCHANGED <<running_, queue_, ofs_, appenders, stopper, admin, hist,
                   bookVars, engineVars, threads, stopVars, respVars, bqVars, auxVars>>

\* a spurious wake-up of cv_.wait, which the standard allows and never promises
WriterSpuriousWake ==
    /\ writer_thread_.pc = "waiting"
    /\ writer_thread_' = [writer_thread_ EXCEPT !.pc = "woken"]
    /\ UNCHANGED <<running_, queue_, mu_, ofs_, appenders, stopper, admin, hist,
                   bookVars, engineVars, threads, stopVars, respVars, bqVars, auxVars>>

\* lines 84-90: break if stopping and empty, else swap the queues; unlock
WriterSwap ==
    /\ writer_thread_.pc = "check"
    /\ mu_' = "free"
    /\ IF ~running_ /\ queue_ = <<>>
       THEN /\ writer_thread_' = [writer_thread_ EXCEPT !.pc = "final"]
            /\ queue_' = queue_
       ELSE /\ writer_thread_' = [pc |-> "write", local_queue |-> queue_,
                                  batch |-> writer_thread_.batch + 1]
            /\ queue_' = writer_thread_.local_queue
    /\ UNCHANGED <<running_, ofs_, appenders, stopper, admin, hist,
                   bookVars, engineVars, threads, stopVars, respVars, bqVars, auxVars>>

\* the thread inside flush() or rotate(), holding mu_ and using ofs_
AdminUsesFile == admin.pc \in {"flush", "rot_flush", "rot_close", "rot_rename", "rot_open"}

\* what `ofs_ << line` can do: on a closed stream the line is not written; while
\* another thread is using the stream the access is a data race and the line
\* may or may not reach the file
WriteOutcomes ==
    IF ~ofs_.is_open THEN {"lost"}
    ELSE IF AdminUsesFile THEN {"written", "lost"}
    ELSE {"written"}

\* ofs_ << local_queue.front() << '\n'; local_queue.pop() (lines 94-95 / 114-115)
write_front(outcome) ==
    LET line == Head(writer_thread_.local_queue)
    IN /\ ofs_' = IF outcome = "written"
                  THEN [ofs_ EXCEPT !.lines =
                           Append(ofs_.lines, [line |-> line, batch |-> writer_thread_.batch])]
                  ELSE ofs_
       /\ hist' = IF outcome = "written" THEN hist
                  ELSE [hist EXCEPT !.lost = hist.lost \cup {line}]
       /\ writer_thread_' = [writer_thread_ EXCEPT !.local_queue = Tail(writer_thread_.local_queue)]

\* lines 93-96: write the batch, no lock held
WriterWrite ==
    /\ writer_thread_.pc = "write"
    /\ writer_thread_.local_queue # <<>>
    /\ \E outcome \in WriteOutcomes : write_front(outcome)
    /\ UNCHANGED <<running_, queue_, mu_, appenders, stopper, admin,
                   bookVars, engineVars, threads, stopVars, respVars, bqVars, auxVars>>

\* lines 99-101: the batch is written: flush, back to the head of the loop
WriterFlush ==
    /\ writer_thread_.pc = "write"
    /\ writer_thread_.local_queue = <<>>
    /\ writer_thread_' = [writer_thread_ EXCEPT !.pc = "loop"]
    /\ UNCHANGED <<running_, queue_, mu_, ofs_, appenders, stopper, admin, hist,
                   bookVars, engineVars, threads, stopVars, respVars, bqVars, auxVars>>

\* lines 108-111: after the loop, lock, swap once more, unlock
WriterFinalSwap ==
    /\ writer_thread_.pc = "final"
    /\ mu_ = "free"
    /\ writer_thread_' = [pc |-> "final_write", local_queue |-> queue_,
                          batch |-> writer_thread_.batch + 1]
    /\ queue_' = writer_thread_.local_queue
    /\ UNCHANGED <<running_, mu_, ofs_, appenders, stopper, admin, hist,
                   bookVars, engineVars, threads, stopVars, respVars, bqVars, auxVars>>

\* lines 113-116: write the last batch
WriterFinalWrite ==
    /\ writer_thread_.pc = "final_write"
    /\ writer_thread_.local_queue # <<>>
    /\ \E outcome \in WriteOutcomes : write_front(outcome)
    /\ UNCHANGED <<running_, queue_, mu_, appenders, stopper, admin,
                   bookVars, engineVars, threads, stopVars, respVars, bqVars, auxVars>>

\* lines 117-120: final flush, the thread function returns
WriterExit ==
    /\ writer_thread_.pc = "final_write"
    /\ writer_thread_.local_queue = <<>>
    /\ writer_thread_' = [writer_thread_ EXCEPT !.pc = "done"]
    /\ UNCHANGED <<running_, queue_, mu_, ofs_, appenders, stopper, admin, hist,
                   bookVars, engineVars, threads, stopVars, respVars, bqVars, auxVars>>

\* ---- WAL::stop (lines 46-55)

\* line 47: running_.exchange(false), without mu_
StopExchange ==
    /\ stopper.pc = "idle"
    /\ running_' = FALSE
    /\ stopper' = [pc |-> IF running_ THEN "notify" ELSE "returned"]
    /\ UNCHANGED <<queue_, mu_, ofs_, writer_thread_, appenders, admin, hist,
                   bookVars, engineVars, threads, stopVars, respVars, bqVars, auxVars>>

\* line 49: cv_.notify_one(), without mu_
StopNotify ==
    /\ stopper.pc = "notify"
    /\ writer_thread_' = notify_one(writer_thread_)
    /\ stopper' = [pc |-> "join"]
    /\ UNCHANGED <<running_, queue_, mu_, ofs_, appenders, admin, hist,
                   bookVars, engineVars, threads, stopVars, respVars, bqVars, auxVars>>

\* lines 50-52: writer_thread_.join() returns once the writer has exited
StopJoin ==
    /\ stopper.pc = "join"
    /\ writer_thread_.pc = "done"
    /\ stopper' = [pc |-> "returned"]
    /\ hist' = [hist EXCEPT !.pushed_at_return = hist.pushed]
    /\ UNCHANGED <<running_, queue_, mu_, ofs_, writer_thread_, appenders, admin,
                   bookVars, engineVars, threads, stopVars, respVars, bqVars, auxVars>>

\* ---- WAL::flush (lines 165-169) and WAL::rotate (lines 204-236)

\* flush(), line 167: lock_guard lk(mu_)
FlushLock ==
    /\ admin.pc = "idle"
    /\ mu_ = "free"
    /\ mu_' = "admin"
    /\ admin' = [pc |-> "flush"]
    /\ UNCHANGED <<running_, queue_, ofs_, writer_thread_, appenders, stopper, hist,
                   bookVars, engineVars, threads, stopVars, respVars, bqVars, auxVars>>

\* flush(), line 168: flush_internal(), then the lock is released
FlushDone ==
    /\ admin.pc = "flush"
    /\ mu_' = "free"
    /\ admin' = [pc |-> "idle"]
    /\ UNCHANGED <<running_, queue_, ofs_, writer_thread_, appenders, stopper, hist,
                   bookVars, engineVars, threads, stopVars, respVars, bqVars, auxVars>>

\* rotate(), line 206: lock_guard lk(mu_)
RotateLock ==
    /\ admin.pc = "idle"
    /\ mu_ = "free"
    /\ mu_' = "admin"
    /\ admin' = [pc |-> "rot_flush"]
    /\ UNCHANGED <<running_, queue_, ofs_, writer_thread_, appenders, stopper, hist,
                   bookVars, engineVars, threads, stopVars, respVars, bqVars, auxVars>>

\* rotate(), line 209: flush_internal()
RotateFlush ==
    /\ admin.pc = "rot_flush"
    /\ admin' = [pc |-> "rot_close"]
    /\ UNCHANGED <<running_, queue_, mu_, ofs_, writer_thread_, appenders, stopper, hist,
                   bookVars, engineVars, threads, stopVars, respVars, bqVars, auxVars>>

\* rotate(), lines 212-214: ofs_.close()
RotateClose ==
    /\ admin.pc = "rot_close"
    /\ ofs_' = [ofs_ EXCEPT !.is_open = FALSE]
    /\ admin' = [pc |-> "rot_rename"]
    /\ UNCHANGED <<running_, queue_, mu_, writer_thread_, appenders, stopper, hist,
                   bookVars, engineVars, threads, stopVars, respVars, bqVars, auxVars>>

\* rotate(), lines 217-226: the old file is renamed
RotateRename ==
    /\ admin.pc = "rot_rename"
    /\ admin' = [pc |-> "rot_open"]
    /\ UNCHANGED <<running_, queue_, mu_, ofs_, writer_thread_, appenders, stopper, hist,
                   bookVars, engineVars, threads, stopVars, respVars, bqVars, auxVars>>

\* rotate(), lines 229-235: ofs_.open(new path); the lock is released at return
RotateOpen ==
    /\ admin.pc = "rot_open"
    /\ ofs_' = [ofs_ EXCEPT !.is_open = TRUE]
    /\ mu_' = "free"
    /\ admin' = [pc |-> "idle"]
    /\ UNCHANGED <<running_, queue_, writer_thread_, appenders, stopper, hist,
                   bookVars, engineVars, threads, stopVars, respVars, bqVars, auxVars>>

\* ------------------------------------------------------------ specifications

\* ------------------------------------------------------- BroadcastQueue
\* src/src/broadcast_queue.cpp: request threads push messages onto queue_
\* under mu_, each worker of the pool pops one message under mu_ and hands
\* it to the WebSocket server outside the lock

MaxPushes == 2
Workers == {"w1", "w2"}
Pushers == {"p1", "p2"}
Msgs == 1..MaxPushes

IdleWorker == [pc |-> "loop", msg |-> 0]
IdlePusher == [pc |-> "idle", msg |-> 0]

\* the state after BroadcastQueue::BroadcastQueue (lines 10-19): running_ is
\* true and the workers stand at the head of writer_thread_loop
BqInit ==
    /\ bq_running_ = TRUE
    /\ bq_queue_ = <<>>
    /\ bq_mu_ = "free"
    /\ workers = [w \in Workers |-> IdleWorker]
    /\ pushers = [p \in Pushers |-> IdlePusher]
    /\ bq_stopper = [pc |-> "idle"]
    /\ bq_hist = [next_msg |-> 1, pushed |-> {}, popped |-> <<>>, sink |-> <<>>,
                  at_stop |-> {}, sink_under_lock |-> FALSE]

\* variant: the sink is called before the lock is released
sink_holds_lock(w) == w

\* the holder of mu_ while worker w calls the sink: the block of the
\* unique_lock has ended (line 77)
sink_lock(w) == "free"

\* variant: the message stays at the front of the queue
queue_pop_keep(q) == q

\* queue_.pop() (line 76)
queue_pop(q) == Tail(q)

\* ---- BroadcastQueue::writer_thread_loop (lines 61-109)

\* line 63: while (running_)
BqWorkerLoop(w) ==
    /\ workers[w].pc = "loop"
    /\ workers' = [workers EXCEPT ![w].pc = IF bq_running_ THEN "lock" ELSE "done"]
    /\ UNCHANGED <<bq_running_, bq_queue_, bq_mu_, pushers, bq_stopper, bq_hist,
                   bookVars, engineVars, threads, walVars, stopVars, respVars, auxVars>>

\* line 67: std::unique_lock lk(mu_); also the lock taken again when
\* cv_.wait returns
BqWorkerLock(w) ==
    /\ workers[w].pc \in {"lock", "woken"}
    /\ bq_mu_ = "free"
    /\ bq_mu_' = w
    /\ workers' = [workers EXCEPT ![w].pc = "pred"]
    /\ UNCHANGED <<bq_running_, bq_queue_, pushers, bq_stopper, bq_hist,
                   bookVars, engineVars, threads, walVars, stopVars, respVars, auxVars>>

\* line 69: the predicate of cv_.wait, !queue_.empty() || !running_
BqWorkerPred(w) ==
    /\ workers[w].pc = "pred"
    /\ workers' = [workers EXCEPT
          ![w].pc = IF bq_queue_ # <<>> \/ ~bq_running_ THEN "check" ELSE "block"]
    /\ UNCHANGED <<bq_running_, bq_queue_, bq_mu_, pushers, bq_stopper, bq_hist,
                   bookVars, engineVars, threads, walVars, stopVars, respVars, auxVars>>

\* line 69: the predicate was false: cv_.wait releases the lock and blocks
BqWorkerBlock(w) ==
    /\ workers[w].pc = "block"
    /\ bq_mu_' = "free"
    /\ workers' = [workers EXCEPT ![w].pc = "waiting"]
    /\ UNCHANGED <<bq_running_, bq_queue_, pushers, bq_stopper, bq_hist,
                   bookVars, engineVars, threads, walVars, stopVars, respVars, auxVars>>

\* a spurious wake-up of cv_.wait, which the standard allows and never promises
BqWorkerSpuriousWake(w) ==
    /\ workers[w].pc = "waiting"
    /\ workers' = [workers EXCEPT ![w].pc = "woken"]
    /\ UNCHANGED <<bq_running_, bq_queue_, bq_mu_, pushers, bq_stopper, bq_hist,
                   bookVars, engineVars, threads, walVars, stopVars, respVars, auxVars>>

\* lines 71-77: return if stopping and empty, else take the front message; unlock
BqWorkerPop(w) ==
    /\ workers[w].pc = "check"
    /\ IF ~bq_running_ /\ bq_queue_ = <<>>
       THEN /\ workers' = [workers EXCEPT ![w].pc = "done"]
            /\ bq_mu_' = "free"
            /\ UNCHANGED <<bq_queue_, bq_hist>>
       ELSE /\ workers' = [workers EXCEPT ![w] = [pc |-> "process", msg |-> Head(bq_queue_)]]
            /\ bq_queue_' = queue_pop(bq_queue_)
            /\ bq_mu_' = sink_lock(w)
            /\ bq_hist' = [bq_hist EXCEPT
                  !.popped = Append(bq_hist.popped, [msg |-> Head(bq_queue_), by |-> w])]
    /\ UNCHANGED <<bq_running_, pushers, bq_stopper,
                   bookVars, engineVars, threads, walVars, stopVars, respVars, auxVars>>

\* lines 81-107: the message is handed to the WebSocket server, or dropped
\* when g_ws_server is not set or not running (line 83); then the loop repeats
BqWorkerProcess(w) ==
    \E ws_running \in BOOLEAN :
        /\ workers[w].pc = "process"
        /\ bq_hist' = [bq_hist EXCEPT
              !.sink = IF ws_running THEN Append(bq_hist.sink, workers[w].msg)
                                     ELSE bq_hist.sink,
              !.sink_under_lock = bq_hist.sink_under_lock \/ bq_mu_ = w]
        /\ bq_mu_' = IF bq_mu_ = w THEN "free" ELSE bq_mu_
        /\ workers' = [workers EXCEPT ![w] = IdleWorker]
        /\ UNCHANGED <<bq_running_, bq_queue_, pushers, bq_stopper,
                       bookVars, engineVars, threads, walVars, stopVars, respVars, auxVars>>

\* ---- BroadcastQueue::push_trade / push_book_update (lines 40-59)

\* lines 41, 53: the running_ check, outside the lock; a refused call returns
\* at once
BqPushCheck(p) ==
    /\ pushers[p].pc = "idle"
    /\ IF bq_running_
       THEN /\ bq_hist.next_msg <= MaxPushes
            /\ pushers' = [pushers EXCEPT ![p] = [pc |-> "lock", msg |-> bq_hist.next_msg]]
            /\ bq_hist' = [bq_hist EXCEPT !.next_msg = bq_hist.next_msg + 1]
       ELSE UNCHANGED <<pushers, bq_hist>>
    /\ UNCHANGED <<bq_running_, bq_queue_, bq_mu_, workers, bq_stopper,
                   bookVars, engineVars, threads, walVars, stopVars, respVars, auxVars>>

\* lines 43, 55: std::lock_guard lk(mu_)
BqPushLock(p) ==
    /\ pushers[p].pc = "lock"
    /\ bq_mu_ = "free"
    /\ bq_mu_' = p
    /\ pushers' = [pushers EXCEPT ![p].pc = "push"]
    /\ UNCHANGED <<bq_running_, bq_queue_, workers, bq_stopper, bq_hist,
                   bookVars, engineVars, threads, walVars, stopVars, respVars, auxVars>>

\* lines 44-45, 56-57: queue_.push; unlock
BqPushPush(p) ==
    /\ pushers[p].pc = "push"
    /\ bq_queue_' = Append(bq_queue_, pushers[p].msg)
    /\ bq_mu_' = "free"
    /\ bq_hist' = [bq_hist EXCEPT !.pushed = bq_hist.pushed \cup {pushers[p].msg}]
    /\ pushers' = [pushers EXCEPT ![p].pc = "notify"]
    /\ UNCHANGED <<bq_running_, workers, bq_stopper,
                   bookVars, engineVars, threads, walVars, stopVars, respVars, auxVars>>

\* lines 46, 58: cv_.notify_one() wakes one of the workers blocked in cv_.wait,
\* if there is one
BqPushNotify(p) ==
    /\ pushers[p].pc = "notify"
    /\ pushers' = [pushers EXCEPT ![p] = IdlePusher]
    /\ IF \E w \in Workers : workers[w].pc = "waiting"
       THEN \E w \in Workers :
               /\ workers[w].pc = "waiting"
               /\ workers' = [workers EXCEPT ![w].pc = "woken"]
       ELSE UNCHANGED workers
    /\ UNCHANGED <<bq_running_, bq_queue_, bq_mu_, bq_stopper, bq_hist,
                   bookVars, engineVars, threads, walVars, stopVars, respVars, auxVars>>

\* ---- BroadcastQueue::~BroadcastQueue and stop (lines 21-37)

\* line 35: running_ = false, without mu_
BqStopSet ==
    /\ bq_stopper.pc = "idle"
    /\ bq_running_' = FALSE
    /\ bq_stopper' = [pc |-> "notify"]
    /\ bq_hist' = [bq_hist EXCEPT !.at_stop = bq_hist.pushed]
    /\ UNCHANGED <<bq_queue_, bq_mu_, workers, pushers,
                   bookVars, engineVars, threads, walVars, stopVars, respVars, auxVars>>

\* line 36: cv_.notify_all(), without mu_: wakes the workers blocked in cv_.wait
BqStopNotifyAll ==
    /\ bq_stopper.pc = "notify"
    /\ workers' = [w \in Workers |->
                      IF workers[w].pc = "waiting" THEN [workers[w] EXCEPT !.pc = "woken"]
                                                   ELSE workers[w]]
    /\ bq_stopper' = [pc |-> "join"]
    /\ UNCHANGED <<bq_running_, bq_queue_, bq_mu_, pushers, bq_hist,
                   bookVars, engineVars, threads, walVars, stopVars, respVars, auxVars>>

\* lines 27-31: the joins return once every worker has left its loop
BqJoin ==
    /\ bq_stopper.pc = "join"
    /\ \A w \in Workers : workers[w].pc = "done"
    /\ bq_stopper' = [pc |-> "returned"]
    /\ UNCHANGED <<bq_running_, bq_queue_, bq_mu_, workers, pushers, bq_hist,
                   bookVars, engineVars, threads, walVars, stopVars, respVars, auxVars>>

\* -------------------------------------------- mutexes of the request handlers
\* The mutexes a request thread takes, in the order the handler takes them:
\* each handler is the sequence of lock and unlock calls it makes, a
\* lock_guard being the pair around what runs in its scope.

LockSymbols == {"BTC-USDT", "ETH-USDT"}

\* g_global_mutex (server.cpp line 148)
EngineLock == [mutex |-> "g_global_mutex", symbol |-> "none"]
\* OrderBook::mu_ (order_book.h line 49), one per book
BookLock(symbol) == [mutex |-> "OrderBook::mu_", symbol |-> symbol]
\* StopOrderManager::mu_ (stop_order_manager.h line 104), one per manager
StopLock(symbol) == [mutex |-> "StopOrderManager::mu_", symbol |-> symbol]
\* WAL::mu_ (wal.h line 48)
WalLock == [mutex |-> "WAL::mu_", symbol |-> "none"]
\* BroadcastQueue::mu_ (broadcast_queue.h line 47)
BqLock == [mutex |-> "BroadcastQueue::mu_", symbol |-> "none"]
\* connections_mutex of the WebSocket server (ws_server.cpp line 482)
ConnectionsLock == [mutex |-> "connections_mutex", symbol |-> "none"]

Locks ==
    {EngineLock, WalLock, BqLock, ConnectionsLock}
    \cup {BookLock(s) : s \in LockSymbols} \cup {StopLock(s) : s \in LockSymbols}

\* std::lock_guard<std::mutex> lk(m) around body
lock_guard(m, body) == <<[op |-> "lock", m |-> m]>> \o body \o <<[op |-> "unlock", m |-> m]>>

RECURSIVE Repeat(_, _)
Repeat(calls, n) == IF n = 0 THEN <<>> ELSE calls \o Repeat(calls, n - 1)

\* WAL::append_json (wal.cpp lines 63-67)
append_json_locks == lock_guard(WalLock, <<>>)
\* OrderBook::add_order, cancel_order, top_bids, top_asks (order_book.cpp lines 42, 160, 197, 208)
book_call_locks(symbol) == lock_guard(BookLock(symbol), <<>>)
\* StopOrderManager::add_stop_order, cancel_stop_order (stop_order_manager.cpp lines 15, 54)
stop_call_locks(symbol) == lock_guard(StopLock(symbol), <<>>)
\* BroadcastQueue::push_trade, push_book_update (broadcast_queue.cpp lines 43-45, 55-57)
push_locks == lock_guard(BqLock, <<>>)
\* WebSocketServer::client_count (ws_server.cpp lines 481-485)
client_count_locks == lock_guard(ConnectionsLock, <<>>)

\* POST /orders (server.cpp lines 142-187): append_order, the book lookup under
\* g_global_mutex, add_order, append_trade per trade, and with trades and a
\* running WebSocket server top_bids, top_asks, push_trade per trade, push_book_update
post_order_locks(symbol, ntrades, ws_running) ==
    append_json_locks
    \o lock_guard(EngineLock, <<>>)
    \o book_call_locks(symbol)
    \o Repeat(append_json_locks, ntrades)
    \o (IF ws_running /\ ntrades > 0
        THEN book_call_locks(symbol) \o book_call_locks(symbol)
             \o Repeat(push_locks, ntrades) \o push_locks
        ELSE <<>>)

\* POST /orders/stop (server.cpp lines 274-281)
post_stop_locks(symbol) ==
    append_json_locks \o lock_guard(EngineLock, <<>>) \o stop_call_locks(symbol)

\* variant: append_cancel is called inside the scope of g_global_mutex
delete_locks_append_locked(symbol, found, has_book, has_mgr, cancelled, ws_running) ==
    lock_guard(EngineLock, <<>>)
    \o (IF ~found THEN <<>>
        ELSE lock_guard(EngineLock,
                 (IF has_book THEN book_call_locks(symbol) ELSE <<>>)
                 \o (IF has_mgr THEN stop_call_locks(symbol) ELSE <<>>)
                 \o (IF cancelled THEN append_json_locks ELSE <<>>)))

\* DELETE /orders/<id> (server.cpp lines 302-346): the lookup under
\* g_global_mutex; cancel_order and cancel_stop_order inside one scope of
\* g_global_mutex; after a cancel, append_cancel, the erase under
\* g_global_mutex, and with a running WebSocket server and a book top_bids,
\* top_asks, push_book_update
delete_locks(symbol, found, has_book, has_mgr, cancelled, ws_running) ==
    lock_guard(EngineLock, <<>>)
    \o (IF ~found THEN <<>>
        ELSE lock_guard(EngineLock,
                 (IF has_book THEN book_call_locks(symbol) ELSE <<>>)
                 \o (IF has_mgr THEN stop_call_locks(symbol) ELSE <<>>))
             \o (IF cancelled
                 THEN append_json_locks
                      \o lock_guard(EngineLock, <<>>)
                      \o (IF ws_running /\ has_book
                          THEN book_call_locks(symbol) \o book_call_locks(symbol) \o push_locks
                          ELSE <<>>)
                 ELSE <<>>))

\* GET /orderbook/<symbol> (server.cpp lines 372-383)
orderbook_locks(symbol, found) ==
    lock_guard(EngineLock, <<>>)
    \o (IF found THEN book_call_locks(symbol) \o book_call_locks(symbol) ELSE <<>>)

RECURSIVE stats_books_locks(_)
stats_books_locks(books) ==
    IF books = <<>> THEN <<>>
    ELSE book_call_locks(Head(books)) \o book_call_locks(Head(books))
         \o stats_books_locks(Tail(books))

\* GET /stats (server.cpp lines 438-451): client_count, then top_bids and
\* top_asks of every book inside the scope of g_global_mutex
stats_locks(ws_present, books) ==
    (IF ws_present THEN client_count_locks ELSE <<>>)
    \o lock_guard(EngineLock, stats_books_locks(books))

\* the requests served: every handler, with every outcome that changes the
\* calls it makes
LockRequests ==
    {post_order_locks(s, n, ws) : s \in LockSymbols, n \in 0..1, ws \in BOOLEAN}
    \cup {post_stop_locks(s) : s \in LockSymbols}
    \cup {delete_locks(s, f, b, m, c, ws) :
              s \in LockSymbols, f \in BOOLEAN, b \in BOOLEAN, m \in BOOLEAN,
              c \in BOOLEAN, ws \in BOOLEAN}
    \cup {orderbook_locks(s, f) : s \in LockSymbols, f \in BOOLEAN}
    \cup {stats_locks(ws, books) :
              ws \in BOOLEAN, books \in {<<>>, <<"BTC-USDT">>, <<"BTC-USDT", "ETH-USDT">>}}

\* WAL::writer_thread_loop takes WAL::mu_ for the swap (wal.cpp lines 79-91)
wal_writer_locks == lock_guard(WalLock, <<>>)
\* BroadcastQueue::writer_thread_loop takes mu_ for the pop (broadcast_queue.cpp
\* lines 67-77) and broadcast takes connections_mutex (ws_server.cpp line 473)
bq_worker_locks == lock_guard(BqLock, <<>>) \o lock_guard(ConnectionsLock, <<>>)

HandlerThreads == {"h1", "h2"}
LkThreads == HandlerThreads \cup {"wal_writer", "bq_worker"}

LkRequestsOf(t) ==
    IF t = "wal_writer" THEN {wal_writer_locks}
    ELSE IF t = "bq_worker" THEN {bq_worker_locks}
    ELSE LockRequests

LkInit ==
    /\ lk_owner = [m \in Locks |-> "free"]
    /\ lk_threads = [t \in LkThreads |-> <<>>]

\* a thread takes up a request, or a background thread its next round
LkStart(t) ==
    \E calls \in LkRequestsOf(t) :
        /\ lk_threads[t] = <<>>
        /\ lk_threads' = [lk_threads EXCEPT ![t] = calls]
        /\ UNCHANGED <<lk_owner, coreVars, feeVars, replayVars, storeVars>>

\* std::mutex::lock: blocks until the mutex is free
LkLock(t) ==
    /\ lk_threads[t] # <<>>
    /\ Head(lk_threads[t]).op = "lock"
    /\ lk_owner[Head(lk_threads[t]).m] = "free"
    /\ lk_owner' = [lk_owner EXCEPT ![Head(lk_threads[t]).m] = t]
    /\ lk_threads' = [lk_threads EXCEPT ![t] = Tail(lk_threads[t])]
    /\ UNCHANGED <<coreVars, feeVars, replayVars, storeVars>>

\* std::mutex::unlock at the end of the lock_guard's scope
LkUnlock(t) ==
    /\ lk_threads[t] # <<>>
    /\ Head(lk_threads[t]).op = "unlock"
    /\ lk_owner' = [lk_owner EXCEPT ![Head(lk_threads[t]).m] = "free"]
    /\ lk_threads' = [lk_threads EXCEPT ![t] = Tail(lk_threads[t])]
    /\ UNCHANGED <<coreVars, feeVars, replayVars, storeVars>>

\* ------------------------------------------------------------------ fees
\* OrderBook::calculate_fees (order_book.cpp lines 34-38), called by add_order
\* for every trade it creates (line 103). Prices are scaled by 100 and
\* quantities by 10^6 (server.cpp lines 113, 127).

\* the fee_config_ the fee test sets (test_order_book.cpp lines 147-150)
fee_config_ == [maker_fee_bps |-> 10, taker_fee_bps |-> 20]

\* (a * b) / (root * root), truncating, for a, b >= 0: the product is taken by
\* parts, a = ah * root + al and b = bh * root + bl, so that no intermediate
\* value leaves the range of the model checker's integers
MulDivSquare(a, b, root) ==
    LET ah == a \div root
        al == a % root
        bh == b \div root
        bl == b % root
    IN ah * bh + ((ah * bl + al * bh + ((al * bl) \div root)) \div root)

\* the divisor 100000000LL of line 35 is NotionalDivisorRoot squared
NotionalDivisorRoot == 10000

\* variant: the maker fee is rounded up
calculate_fees_maker_up(trade) ==
    LET notional == MulDivSquare(trade.price, trade.quantity, NotionalDivisorRoot)
    IN [trade EXCEPT
          !.maker_fee = (notional * fee_config_.maker_fee_bps + 9999) \div 10000,
          !.taker_fee = (notional * fee_config_.taker_fee_bps) \div 10000]

calculate_fees(trade) ==
    LET notional == MulDivSquare(trade.price, trade.quantity, NotionalDivisorRoot)
    IN [trade EXCEPT
          !.maker_fee = (notional * fee_config_.maker_fee_bps) \div 10000,
          !.taker_fee = (notional * fee_config_.taker_fee_bps) \div 10000]

\* prices from 0.01 to 50000.00 and quantities from 0.000001 to 10
FeePrices == {1, 100, 99900, 123456, 1000000, 5000000}
FeeQuantities == {1, 500000, 1000000, 1234567, 10000000}

NoFee == [price |-> 0, quantity |-> 0, maker_fee |-> 0, taker_fee |-> 0]

FeeInit == fee_last = <<>>

\* the trades add_order makes when a taker is filled at one price level
\* against one maker, or against two makers in turn (order_book.cpp lines
\* 91-103): each trade gets its fees from calculate_fees
FeeFill ==
    \E price_level \in FeePrices, q1 \in FeeQuantities, q2 \in FeeQuantities \cup {0} :
        /\ fee_last' =
               <<calculate_fees([NoFee EXCEPT !.price = price_level, !.quantity = q1])>>
               \o (IF q2 = 0 THEN <<>>
                   ELSE <<calculate_fees([NoFee EXCEPT !.price = price_level,
                                                       !.quantity = q2])>>)
        /\ UNCHANGED <<coreVars, lockVars, replayVars, storeVars>>

\* ------------------------------------------------------------ WAL::replay
\* WAL::replay (wal.cpp lines 171-202) reads the file at path_ line by line.
\* A line is a sequence of tokens: a complete record is <<"{", n, "}">>, a
\* record cut short is <<"{", n>>, <<"x">> is no JSON at all, <<>> is an
\* empty line.

MaxFileLines == 3

FileLines == {<<>>, <<"{", 1, "}">>, <<"{", 2, "}">>, <<"{", 1>>, <<"x">>}

\* nlohmann::json::parse (line 189): the value of a complete record, or an
\* exception
json_parse(line) ==
    IF Len(line) = 3 /\ line[1] = "{" /\ line[3] = "}"
    THEN [ok |-> TRUE, value |-> [record |-> line[2]]]
    ELSE [ok |-> FALSE, value |-> [record |-> 0]]

NoFile == [exists |-> FALSE, lines |-> <<>>]

IdleReplay == [pc |-> "idle", line_num |-> 0, entries |-> <<>>, errors |-> 0,
               before |-> NoFile]

ReplayInit == wal_file = NoFile /\ rp = IdleReplay

\* variant: the first line that does not parse ends the loop
replay_line_stop(r, line) ==
    IF line = <<>> THEN [r EXCEPT !.line_num = @ + 1]
    ELSE IF json_parse(line).ok
         THEN [r EXCEPT !.line_num = @ + 1,
                        !.entries = Append(@, json_parse(line).value)]
         ELSE [r EXCEPT !.line_num = @ + 1, !.errors = @ + 1, !.pc = "close"]

\* one round of the getline loop (lines 185-196): an empty line is passed
\* over, a line that parses is pushed onto entries, a line that throws is
\* counted
replay_line(r, line) ==
    IF line = <<>> THEN [r EXCEPT !.line_num = @ + 1]
    ELSE IF json_parse(line).ok
         THEN [r EXCEPT !.line_num = @ + 1,
                        !.entries = Append(@, json_parse(line).value)]
         ELSE [r EXCEPT !.line_num = @ + 1, !.errors = @ + 1]

\* the WAL, opened in append mode, creates the file and adds a line to it
\* (wal.cpp, the writer); no line is added while a replay is under way, as
\* at start-up, where replay runs before the servers (main.cpp lines 132-139)
FileAppendLine ==
    \E line \in FileLines :
        /\ rp.pc = "idle"
        /\ Len(wal_file.lines) < MaxFileLines
        /\ wal_file' = [exists |-> TRUE, lines |-> Append(wal_file.lines, line)]
        /\ UNCHANGED <<rp, coreVars, lockVars, feeVars, storeVars>>

\* replay, std::ifstream ifs(path_) and the is_open test (lines 175-179): a
\* file that cannot be opened gives the empty entries back
ReplayOpen ==
    /\ rp.pc = "idle"
    /\ rp' = [IdleReplay EXCEPT !.pc = IF wal_file.exists THEN "getline" ELSE "done",
                                !.before = wal_file]
    /\ UNCHANGED <<wal_file, coreVars, lockVars, feeVars, storeVars>>

\* replay, std::getline and the loop body (lines 185-196); at the end of the
\* file the loop is left
ReplayGetline ==
    /\ rp.pc = "getline"
    /\ rp' = IF rp.line_num < Len(wal_file.lines)
             THEN replay_line(rp, wal_file.lines[rp.line_num + 1])
             ELSE [rp EXCEPT !.pc = "close"]
    /\ UNCHANGED <<wal_file, coreVars, lockVars, feeVars, storeVars>>

\* replay, ifs.close() and return entries (lines 198-201)
ReplayClose ==
    /\ rp.pc = "close"
    /\ rp' = [rp EXCEPT !.pc = "done"]
    /\ UNCHANGED <<wal_file, coreVars, lockVars, feeVars, storeVars>>

\* the caller has the entries; the next call of replay starts afresh
ReplayReturn ==
    /\ rp.pc = "done"
    /\ rp' = IdleReplay
    /\ UNCHANGED <<wal_file, coreVars, lockVars, feeVars, storeVars>>

\* ------------------------------------------------------ OrderStore::next_id
\* OrderStore::next_id (order_store.cpp lines 22-27): the id is taken from the
\* atomic id_counter with fetch_add(1) and written behind "ORD-". The counter
\* is 64 bits wide; it does not wrap within the calls a run can make.

MaxNextIds == 4

StoreCallers == {"c1", "c2", "c3"}

IdleCaller == [pc |-> "idle", id |-> 0]

\* OrderStore::OrderStore sets id_counter to 1 (line 10)
StoreInit ==
    /\ id_counter = 1
    /\ id_callers = [c \in StoreCallers |-> IdleCaller]
    /\ id_returned = <<>>

\* variant: the counter is read and left as it is
fetch_add_none(counter) == counter

\* std::atomic<uint64_t>::fetch_add(1): the value the counter has afterwards
fetch_add(counter) == counter + 1

\* ss << "ORD-" << id (lines 24-26)
store_id(id) == <<"ORD", id>>

\* next_id, auto id = id_counter.fetch_add(1) (line 23): one atomic step
NextIdFetchAdd(c) ==
    /\ id_callers[c].pc = "idle"
    /\ id_counter <= MaxNextIds
    /\ id_counter' = fetch_add(id_counter)
    /\ id_callers' = [id_callers EXCEPT ![c] = [pc |-> "format", id |-> id_counter]]
    /\ UNCHANGED <<id_returned, coreVars, lockVars, feeVars, replayVars>>

\* next_id, the formatting and the return (lines 24-26)
NextIdReturn(c) ==
    /\ id_callers[c].pc = "format"
    /\ id_returned' = Append(id_returned, store_id(id_callers[c].id))
    /\ id_callers' = [id_callers EXCEPT ![c] = IdleCaller]
    /\ UNCHANGED <<id_counter, coreVars, lockVars, feeVars, replayVars>>


vars == <<bookVars, engineVars, threads, walVars, stopVars, respVars, bqVars, auxVars>>

Init == BookInit /\ EngineInit /\ RespInit /\ WalInit /\ StopInit /\ BqInit /\ LkInit /\ FeeInit /\ ReplayInit /\ StoreInit /\ threads = [t \in Threads |-> IdleThread]

Next == AddMarket \/ AddLimit \/ AddIoc \/ AddFok \/ CancelOrder \/ TopBids \/ TopAsks

Spec == Init /\ [][Next]_vars

NextSeq == PostAnyOrder \/ PostStopOrder \/ DeleteOrder

SpecSeq == Init /\ [][NextSeq]_vars

NextRestart == NextSeq \/ Restart

\* requests served one at a time, with restarts of the process between them
SpecRestart == Init /\ [][NextRestart]_vars

NextConc ==
    \E t \in Threads :
        \/ PostCreate(t) \/ PostAppendOrder(t) \/ PostGetBook(t) \/ PostAddOrder(t)
        \/ PostAppendTrade(t)
        \/ DeleteLookup(t) \/ DeleteCancel(t) \/ DeleteAppendCancel(t) \/ DeleteEraseId(t)

SpecConc == Init /\ [][NextConc]_vars

NextStop ==
    \/ SomAddStopLoss \/ SomAddStopLimit \/ SomAddTrailing
    \/ SomCancel \/ SomCheckTriggers \/ SomUpdateTrailing

\* a StopOrderManager object under add_stop_order, cancel_stop_order,
\* check_triggers and update_trailing_stops calls
SpecStop == Init /\ [][NextStop]_vars

AppenderStep == \E a \in Appenders : AppendCheck(a) \/ AppendPush(a) \/ AppendNotify(a)

WriterStep ==
    \/ WriterLoop \/ WriterLock \/ WriterPred \/ WriterBlock \/ WriterSwap
    \/ WriterWrite \/ WriterFlush \/ WriterFinalSwap \/ WriterFinalWrite \/ WriterExit

StopStep == StopExchange \/ StopNotify \/ StopJoin

NextWal == AppenderStep \/ WriterStep \/ WriterSpuriousWake \/ StopStep

\* producers, the writer thread and stop()
SpecWal == Init /\ [][NextWal]_vars

\* the same, with every thread that can take a step taking it eventually; a
\* spurious wake-up is never owed
SpecWalLive ==
    /\ Init /\ [][NextWal]_vars
    /\ WF_vars(WriterStep)
    /\ WF_vars(StopStep)
    /\ \A a \in Appenders : WF_vars(AppendPush(a) \/ AppendNotify(a))

NextWalRotate ==
    \/ NextWal
    \/ FlushLock \/ FlushDone
    \/ RotateLock \/ RotateFlush \/ RotateClose \/ RotateRename \/ RotateOpen

\* producers, the writer thread, stop() and a thread calling flush() or rotate()
SpecWalRotate == Init /\ [][NextWalRotate]_vars

BqWorkerStep(w) ==
    \/ BqWorkerLoop(w) \/ BqWorkerLock(w) \/ BqWorkerPred(w) \/ BqWorkerBlock(w)
    \/ BqWorkerPop(w) \/ BqWorkerProcess(w)

BqPusherStep(p) == BqPushCheck(p) \/ BqPushLock(p) \/ BqPushPush(p) \/ BqPushNotify(p)

BqStopStep == BqStopSet \/ BqStopNotifyAll \/ BqJoin

NextBq ==
    \/ \E w \in Workers : BqWorkerStep(w) \/ BqWorkerSpuriousWake(w)
    \/ \E p \in Pushers : BqPusherStep(p)
    \/ BqStopStep

\* the worker pool, request threads that push, and the destructor
SpecBq == Init /\ [][NextBq]_vars

\* the same, with every thread that can take a step taking it eventually; a
\* spurious wake-up is never owed
SpecBqLive ==
    /\ Init /\ [][NextBq]_vars
    /\ \A w \in Workers : WF_vars(BqWorkerStep(w))
    /\ \A p \in Pushers : WF_vars(BqPushLock(p) \/ BqPushPush(p) \/ BqPushNotify(p))
    /\ WF_vars(BqStopStep)

NextLocks == \E t \in LkThreads : LkStart(t) \/ LkLock(t) \/ LkUnlock(t)

SpecLocks == Init /\ [][NextLocks]_vars

NextFees == FeeFill

SpecFees == Init /\ [][NextFees]_vars

NextReplay == FileAppendLine \/ ReplayOpen \/ ReplayGetline \/ ReplayClose \/ ReplayReturn

SpecReplay == Init /\ [][NextReplay]_vars

NextStore == \E c \in StoreCallers : NextIdFetchAdd(c) \/ NextIdReturn(c)

SpecStore == Init /\ [][NextStore]_vars

\* ============================================================ properties
\* the helpers below describe a book declaratively; they model no code

\* the resting orders of one side in matching order, each with its level's key
RECURSIVE SideEntries(_, _, _)
SideEntries(m, keys, desc) ==
    IF keys = {} THEN <<>>
    ELSE LET k == IF desc THEN Max(keys) ELSE Min(keys)
         IN [i \in 1..Len(m[k]) |->
                [order_id |-> m[k][i].order_id, level |-> k, quantity |-> m[k][i].quantity]]
            \o SideEntries(m, keys \ {k}, desc)

BidEntries(book) == SideEntries(book.bids, DOMAIN book.bids, TRUE)
AskEntries(book) == SideEntries(book.asks, DOMAIN book.asks, FALSE)
OppositeEntries(book, side) == IF side = "buy" THEN AskEntries(book) ELSE BidEntries(book)
OwnSide(book, side) == IF side = "buy" THEN book.bids ELSE book.asks
OppositeSide(book, side) == IF side = "buy" THEN book.asks ELSE book.bids
IdsOf(entries) == [i \in 1..Len(entries) |-> entries[i].order_id]
WithoutId(entries, id) == SelectSeq(entries, LAMBDA e : e.order_id # id)

IsAdd == last.op = "add_order"
IsCancel == last.op = "cancel_order"

\* C1: after every add_order and cancel_order the book is not crossed: a side
\* is empty or the highest bid price is strictly below the lowest ask price.
C1_NotCrossed ==
    \/ DOMAIN ob.bids = {}
    \/ DOMAIN ob.asks = {}
    \/ Max(DOMAIN ob.bids) < Min(DOMAIN ob.asks)

\* C1 witness: a limit order traded, rested its remainder, and both sides hold orders
C1_Witness ==
    /\ IsAdd /\ last.order.order_type = "limit"
    /\ last.trades # <<>>
    /\ last.id \in DOMAIN ob.order_index
    /\ DOMAIN ob.bids # {} /\ DOMAIN ob.asks # {}

\* C4 (as claimed): every trade of a Limit, IOC or FOK order with limit price P
\* has price <= P for a buy and price >= P for a sell.
C4_TradesWithinLimit ==
    (IsAdd /\ last.order.order_type \in Priced) =>
        \A i \in 1..Len(last.trades) :
            IF last.order.side = "buy" THEN last.trades[i].price <= last.order.price
                                       ELSE last.trades[i].price >= last.order.price

\* quantity resting on the opposite side of `book` within the order's limit price
RECURSIVE SumWithin(_, _)
SumWithin(entries, order) ==
    IF entries = <<>> THEN 0
    ELSE (IF (order.side = "buy" /\ Head(entries).level <= order.price)
             \/ (order.side = "sell" /\ Head(entries).level >= order.price)
          THEN Head(entries).quantity ELSE 0) + SumWithin(Tail(entries), order)

AvailableWithin(book, order) == SumWithin(OppositeEntries(book, order.side), order)

\* C5: a FOK order is all-or-nothing: with less than order.quantity available
\* within its price the call returns no trades and leaves the book and index
\* unchanged; otherwise the trades sum to order.quantity; nothing of it rests.
C5_FokAllOrNothing ==
    (IsAdd /\ last.order.order_type = "fok") =>
        /\ AvailableWithin(last.pre, last.order) < last.order.quantity
              => (last.trades = <<>> /\ ob = last.pre)
        /\ AvailableWithin(last.pre, last.order) >= last.order.quantity
              => SumQty(last.trades) = last.order.quantity
        /\ last.id \notin DOMAIN ob.order_index
        /\ OwnSide(ob, last.order.side) = OwnSide(last.pre, last.order.side)

\* C5 witness: a FOK order was refused although part of its quantity was available
C5_Witness ==
    /\ IsAdd /\ last.order.order_type = "fok"
    /\ AvailableWithin(last.pre, last.order) > 0
    /\ AvailableWithin(last.pre, last.order) < last.order.quantity
    /\ OppositeEntries(last.pre, last.order.side) # <<>>

\* C6: Market and IOC orders never rest: after the call the order's id is not
\* indexed, no order with its id is on the book and its own side is unchanged.
C6_MarketIocNeverRest ==
    (IsAdd /\ last.order.order_type \in {"market", "ioc"}) =>
        /\ last.id \notin DOMAIN ob.order_index
        /\ RestingQtyOf(ob, last.id) = 0
        /\ OwnSide(ob, last.order.side) = OwnSide(last.pre, last.order.side)

\* C6 witness: a Market or IOC order was partly filled and its remainder discarded
C6_Witness ==
    /\ IsAdd /\ last.order.order_type \in {"market", "ioc"}
    /\ last.trades # <<>>
    /\ last.remaining > 0

\* every level holds its orders in arrival order (order ids are given in call order)
LevelInArrivalOrder(dq) == \A i, j \in 1..Len(dq) : i < j => dq[i].order_id < dq[j].order_id
LevelsInArrivalOrder(book) ==
    /\ \A p \in DOMAIN book.bids : LevelInArrivalOrder(book.bids[p])
    /\ \A p \in DOMAIN book.asks : LevelInArrivalOrder(book.asks[p])

\* C7: price-time priority: the trades of one add_order name the makers of the
\* opposite side best price first and, within a level, in arrival order; a
\* partially filled maker stays at the head of the best level; a cancel leaves
\* the relative order of the other orders unchanged.
C7_PriceTimePriority ==
    /\ LevelsInArrivalOrder(ob)
    /\ IsAdd =>
         LET opp == OppositeEntries(last.pre, last.order.side)
             n == Len(last.trades)
         IN /\ n <= Len(opp)
            /\ \A i \in 1..n : last.trades[i].maker_order_id = opp[i].order_id
            /\ \A i \in 1..n : \A j \in 1..n :
                  i < j => IF last.order.side = "buy"
                           THEN last.trades[i].price <= last.trades[j].price
                           ELSE last.trades[i].price >= last.trades[j].price
            /\ (n > 0 /\ last.trades[n].maker_order_id \in DOMAIN ob.order_index) =>
                  LET after == OppositeEntries(ob, last.order.side)
                  IN /\ after # <<>>
                     /\ after[1].order_id = last.trades[n].maker_order_id
                     /\ IdsOf(after) = IdsOf(SubSeq(opp, n, Len(opp)))
    /\ (IsCancel /\ last.ok) =>
         /\ IdsOf(BidEntries(ob)) = IdsOf(WithoutId(BidEntries(last.pre), last.id))
         /\ IdsOf(AskEntries(ob)) = IdsOf(WithoutId(AskEntries(last.pre), last.id))

\* C7 witness: one order traded with two makers of the same price level
C7_Witness ==
    /\ IsAdd /\ Len(last.trades) >= 2
    /\ last.trades[1].price = last.trades[2].price
    /\ last.trades[1].maker_order_id < last.trades[2].maker_order_id

\* quantity of the taker still unfilled before its i-th trade
RECURSIVE FilledBefore(_, _)
FilledBefore(trades, i) == IF i <= 1 THEN 0 ELSE trades[i-1].quantity + FilledBefore(trades, i-1)

\* C8: every trade has the maker's level price, quantity min(taker's remaining,
\* maker's resting quantity), the taker's side as aggressor_side, the order at
\* the head of the matched level as maker and the incoming order as taker.
C8_TradeFields ==
    IsAdd =>
        LET opp == OppositeEntries(last.pre, last.order.side)
        IN \A i \in 1..Len(last.trades) :
              /\ i <= Len(opp)
              /\ last.trades[i].price = opp[i].level
              /\ last.trades[i].quantity =
                     MinOf(last.order.quantity - FilledBefore(last.trades, i), opp[i].quantity)
              /\ last.trades[i].aggressor_side = last.order.side
              /\ last.trades[i].maker_order_id = opp[i].order_id
              /\ last.trades[i].taker_order_id = last.order.order_id

\* C8 witness: a trade at a price other than the taker's, for less than the taker's quantity
C8_Witness ==
    /\ IsAdd /\ last.order.order_type = "limit"
    /\ last.trades # <<>>
    /\ last.trades[1].price # last.order.price
    /\ last.trades[1].quantity < last.order.quantity

\* number of resting orders with this id in the level and on the side given
CountAt(book, id, price, is_buy) ==
    LET m == IF is_buy THEN book.bids ELSE book.asks
    IN IF price \in DOMAIN m
       THEN Cardinality({i \in 1..Len(m[price]) : m[price][i].order_id = id})
       ELSE 0

CountAll(book, id) ==
    Len(SelectSeq(BidEntries(book) \o AskEntries(book), LAMBDA e : e.order_id = id))

\* C9: the id-index and the book agree: every indexed id has exactly one resting
\* order, in the level and on the side the index records, and every resting
\* order's id is indexed.
C9_IndexAgreesWithBook ==
    /\ \A id \in DOMAIN ob.order_index :
          /\ CountAll(ob, id) = 1
          /\ CountAt(ob, id, ob.order_index[id].price, ob.order_index[id].is_buy) = 1
    /\ \A id \in 1..MaxOrders : CountAll(ob, id) > 0 => id \in DOMAIN ob.order_index

\* C9 witness: a maker was filled and removed while another order stays indexed
C9_Witness ==
    /\ IsAdd /\ last.trades # <<>>
    /\ \E i \in 1..Len(last.trades) :
          /\ last.trades[i].maker_order_id \in DOMAIN last.pre.order_index
          /\ last.trades[i].maker_order_id \notin DOMAIN ob.order_index
    /\ DOMAIN ob.order_index # {}

RestingQty(book) == SumQty(BidEntries(book) \o AskEntries(book))

\* C10 (as claimed): resting quantity plus traded quantity equals accepted
\* quantity minus the cancelled or discarded remainders.
C10_Conservation ==
    RestingQty(ob) + traded_qty = accepted_qty - discarded_qty

\* C10 (amended): a trade takes its quantity from the maker and from the taker,
\* so resting quantity plus twice the traded quantity equals accepted quantity
\* minus the cancelled or discarded remainders.
C10_ConservationBothSides ==
    RestingQty(ob) + 2 * traded_qty = accepted_qty - discarded_qty

\* C10 witness: orders rest, trades happened and a remainder was discarded
C10_Witness ==
    /\ RestingQty(ob) > 0
    /\ traded_qty > 0
    /\ discarded_qty > 0

BookOf(books, symbol) == IF symbol \in DOMAIN books THEN books[symbol] ELSE EmptyBook
ManagerOf(mgrs, symbol) == IF symbol \in DOMAIN mgrs THEN mgrs[symbol] ELSE EmptyManager

\* C2 (as claimed): with requests served one at a time, replaying the WAL into
\* a fresh engine gives, for every symbol, the live book and the live stop orders.
C2_ReplayEqualsLive ==
    LET r == replay_wal(wal)
    IN \A symbol \in Symbols :
          /\ BookOf(r.books, symbol) = BookOf(g_order_books, symbol)
          /\ ManagerOf(r.stops, symbol) = ManagerOf(g_stop_order_managers, symbol)

\* a stop order without the two fields the WAL record does not carry
StopView(stop) ==
    [order_id |-> stop.order_id, symbol |-> stop.symbol, stop_type |-> stop.stop_type,
     side |-> stop.side, trigger_price |-> stop.trigger_price,
     limit_price |-> stop.limit_price, quantity |-> stop.quantity]

StopsView(mm) == [i \in 1..Len(mm) |-> [key |-> mm[i].key, stop |-> StopView(mm[i].stop)]]

ManagerView(mgr) ==
    [buy_stops |-> StopsView(mgr.buy_stops), sell_stops |-> StopsView(mgr.sell_stops),
     order_index |-> mgr.order_index]

\* C2 (amended): with requests served one at a time, replaying the WAL gives,
\* for every symbol, the live book and the live stop orders in the same order
\* with the same id, side, type, trigger price, limit price and quantity;
\* best_price and trail_amount are not logged and are set anew by the replay.
C2_ReplayEqualsLiveView ==
    LET r == replay_wal(wal)
    IN \A symbol \in Symbols :
          /\ BookOf(r.books, symbol) = BookOf(g_order_books, symbol)
          /\ ManagerView(ManagerOf(r.stops, symbol))
                 = ManagerView(ManagerOf(g_stop_order_managers, symbol))

\* C2 witness: the WAL holds an order record, a stop-limit record and a trade
\* or cancel record, and a stop-limit order is stored in the live manager
C2_Witness ==
    /\ \E i \in 1..Len(wal) : wal[i].type \in {"cancel", "trade"}
    /\ \E i \in 1..Len(wal) : wal[i].type = "order" /\ wal[i].payload.order_type # "stop"
    /\ \E symbol \in DOMAIN g_stop_order_managers :
          LET mgr == g_stop_order_managers[symbol]
          IN \E i \in 1..Len(mgr.buy_stops \o mgr.sell_stops) :
                (mgr.buy_stops \o mgr.sell_stops)[i].stop.stop_type = "STOP_LIMIT"

AllIdle == \A t \in Threads : threads[t].pc = "idle"

\* C3 (as claimed): for every interleaving of request threads submitting and
\* cancelling orders, once the requests have completed, replaying the WAL
\* yields the book the live engine holds.
C3_ReplayEqualsLiveConcurrent ==
    AllIdle =>
        LET r == replay_wal(wal)
        IN \A symbol \in Symbols : BookOf(r.books, symbol) = BookOf(g_order_books, symbol)

LevelAt(m, price) == IF price \in DOMAIN m THEN m[price] ELSE <<>>

\* C11: a Limit order left with remainder r > 0 after matching adds exactly one
\* resting order with its id, its price and quantity r at the tail of that
\* price level of its own side and indexes it; with r = 0 nothing is added.
C11_LimitRemainderRests ==
    (IsAdd /\ last.order.order_type = "limit") =>
        LET own == OwnSide(ob, last.order.side)
            pre == OwnSide(last.pre, last.order.side)
            p == last.order.price
        IN /\ last.remaining = last.order.quantity - SumQty(last.trades)
           /\ IF last.remaining > 0
              THEN /\ p \in DOMAIN own
                   /\ own[p] = Append(LevelAt(pre, p),
                                      [last.order EXCEPT !.quantity = last.remaining])
                   /\ DOMAIN own = DOMAIN pre \cup {p}
                   /\ \A q \in DOMAIN pre \ {p} : own[q] = pre[q]
                   /\ CountAll(ob, last.id) = 1
                   /\ last.id \in DOMAIN ob.order_index
                   /\ ob.order_index[last.id] =
                          [price |-> p, is_buy |-> last.order.side = "buy"]
              ELSE /\ own = pre
                   /\ CountAll(ob, last.id) = 0
                   /\ last.id \notin DOMAIN ob.order_index

\* C11 witness: a limit order was partly filled and its remainder rests
C11_Witness ==
    /\ IsAdd /\ last.order.order_type = "limit"
    /\ last.trades # <<>>
    /\ last.remaining > 0
    /\ last.remaining < last.order.quantity
    /\ last.id \in DOMAIN ob.order_index

\* a limit order rested behind an order already waiting at its price
C11_TailWitness ==
    /\ IsAdd /\ last.order.order_type = "limit"
    /\ last.remaining > 0
    /\ LevelAt(OwnSide(last.pre, last.order.side), last.order.price) # <<>>

\* the entries left when quantity q is taken from the front of `entries`
RECURSIVE TakeFromFront(_, _)
TakeFromFront(entries, q) ==
    IF q = 0 \/ entries = <<>> THEN entries
    ELSE IF Head(entries).quantity <= q
         THEN TakeFromFront(Tail(entries), q - Head(entries).quantity)
         ELSE <<[Head(entries) EXCEPT !.quantity = Head(entries).quantity - q]>>
              \o Tail(entries)

\* C12: a Market order trades exactly min(order.quantity, total quantity resting
\* on the opposite side), over as many price levels as needed, and the opposite
\* side loses exactly that quantity, taken from its best prices first.
C12_MarketSweeps ==
    (IsAdd /\ last.order.order_type = "market") =>
        LET opp == OppositeEntries(last.pre, last.order.side)
            take == MinOf(last.order.quantity, SumQty(opp))
        IN /\ SumQty(last.trades) = take
           /\ OppositeEntries(ob, last.order.side) = TakeFromFront(opp, take)
           /\ SumQty(OppositeEntries(ob, last.order.side)) = SumQty(opp) - take

\* C12 witness: a market order traded at two price levels and left orders behind
C12_Witness ==
    /\ IsAdd /\ last.order.order_type = "market"
    /\ Len(last.trades) >= 2
    /\ last.trades[1].price # last.trades[2].price
    /\ OppositeEntries(ob, last.order.side) # <<>>

NoEmptyLevel(m) == \A p \in DOMAIN m : m[p] # <<>>

\* C13: cancel_order(id) on a resting order removes exactly that order (the
\* other orders of its level keep their order, the level goes if it becomes
\* empty), removes the index entry and returns true; on an id that is not
\* resting it returns false and leaves bids, asks and the index unchanged.
C13_CancelExactlyThat ==
    IsCancel =>
        IF CountAll(last.pre, last.id) > 0
        THEN /\ last.ok
             /\ BidEntries(ob) = WithoutId(BidEntries(last.pre), last.id)
             /\ AskEntries(ob) = WithoutId(AskEntries(last.pre), last.id)
             /\ Len(BidEntries(ob)) + Len(AskEntries(ob))
                    = Len(BidEntries(last.pre)) + Len(AskEntries(last.pre)) - 1
             /\ NoEmptyLevel(ob.bids) /\ NoEmptyLevel(ob.asks)
             /\ ob.order_index = MapErase(last.pre.order_index, last.id)
        ELSE /\ ~last.ok
             /\ ob = last.pre

\* C13 witness: a cancel removed an order from a level that keeps another order
C13_Witness ==
    /\ IsCancel /\ last.ok
    /\ \E p \in DOMAIN ob.bids \cup DOMAIN ob.asks :
          LET side == IF last.pre.order_index[last.id].is_buy THEN "buy" ELSE "sell"
          IN /\ p = last.pre.order_index[last.id].price
             /\ p \in DOMAIN OwnSide(ob, side)
             /\ Len(OwnSide(last.pre, side)[p]) > Len(OwnSide(ob, side)[p])

\* a cancel of an order that was filled or cancelled before is refused
C13_RefusedWitness ==
    /\ IsCancel /\ ~last.ok
    /\ last.id < next_order_id
    /\ ob.order_index # EmptyMap

\* a cancel emptied its price level
C13_LevelGoneWitness ==
    /\ IsCancel /\ last.ok
    /\ last.pre.order_index[last.id].price
          \notin DOMAIN (IF last.pre.order_index[last.id].is_buy THEN ob.bids ELSE ob.asks)

IsTopBids == last.op = "top_bids"
IsTopAsks == last.op = "top_asks"

\* C14: no empty price level is ever visible: after any sequence of add_order
\* and cancel_order calls every (price, aggregate) pair returned by top_bids or
\* top_asks has aggregate > 0, and every resting order has quantity > 0.
C14_NoEmptyLevelVisible ==
    /\ (IsTopBids \/ IsTopAsks) =>
          \A i \in 1..Len(last.levels) : last.levels[i][2] > 0
    /\ \A n \in Depths :
          /\ \A i \in 1..Len(top_bids(ob, n)) : top_bids(ob, n)[i][2] > 0
          /\ \A i \in 1..Len(top_asks(ob, n)) : top_asks(ob, n)[i][2] > 0
    /\ NoEmptyLevel(ob.bids) /\ NoEmptyLevel(ob.asks)
    /\ LET all == BidEntries(ob) \o AskEntries(ob)
       IN \A i \in 1..Len(all) : all[i].quantity > 0

\* C14 witness: top_bids or top_asks answered about a book from which a level
\* had been emptied by fills or by a cancel
C14_Witness ==
    /\ IsTopBids \/ IsTopAsks
    /\ last.levels # <<>>
    /\ accepted_qty - discarded_qty > RestingQty(ob)
    /\ Cardinality(DOMAIN ob.order_index) < next_order_id - 1

\* the aggregate of a level, taken from the side's resting orders
LevelQty(entries, price) == SumQty(SelectSeq(entries, LAMBDA e : e.level = price))

\* what C15 asks of a result `levels` for depth n over the side `m`
TopLevelsRight(levels, n, m, entries, desc) ==
    /\ Len(levels) = MinOf(n, Cardinality(DOMAIN m))
    /\ \A i \in 1..Len(levels) :
          /\ levels[i][1] \in DOMAIN m
          /\ levels[i][2] = LevelQty(entries, levels[i][1])
    /\ \A i, j \in 1..Len(levels) :
          i < j => IF desc THEN levels[i][1] > levels[j][1] ELSE levels[i][1] < levels[j][1]
    /\ \A p \in DOMAIN m :
          (\A i \in 1..Len(levels) : levels[i][1] # p) =>
              \A i \in 1..Len(levels) :
                  IF desc THEN levels[i][1] > p ELSE levels[i][1] < p

\* C15: top_bids(n) returns the min(n, number of bid levels) highest-priced bid
\* levels in strictly descending price order and top_asks(n) the min(n, number
\* of ask levels) lowest-priced ask levels in strictly ascending price order,
\* each with the sum of the quantities resting at that price; the calls do not
\* change the book.
C15_TopLevels ==
    /\ IsTopBids =>
          /\ TopLevelsRight(last.levels, last.n, last.pre.bids, BidEntries(last.pre), TRUE)
          /\ ob = last.pre
    /\ IsTopAsks =>
          /\ TopLevelsRight(last.levels, last.n, last.pre.asks, AskEntries(last.pre), FALSE)
          /\ ob = last.pre

\* C15 witness: top_bids(1) on a book with two bid levels, the best one holding
\* two orders
C15_Witness ==
    /\ IsTopBids
    /\ last.n = 1
    /\ Cardinality(DOMAIN ob.bids) = 2
    /\ Len(ob.bids[Max(DOMAIN ob.bids)]) = 2

\* positions of the order record of `order_id` in a sequence of WAL records
OrderRecordsOf(w, order_id) ==
    {i \in 1..Len(w) : w[i].type = "order" /\ w[i].payload.order_id = order_id}

\* C16: in the WAL the order record of an order precedes every trade record
\* that names the order as taker or as maker, for every interleaving of
\* concurrent submissions.
C16_OrderBeforeItsTrades ==
    \A j \in 1..Len(wal) :
        wal[j].type = "trade" =>
            /\ \E i \in OrderRecordsOf(wal, wal[j].payload.taker_order_id) : i < j
            /\ \E i \in OrderRecordsOf(wal, wal[j].payload.maker_order_id) : i < j

\* C16 witness: a trade record whose taker was logged before its maker: the
\* taker's thread logged first and reached the book last
C16_Witness ==
    \E j \in 1..Len(wal) :
        /\ wal[j].type = "trade"
        /\ \E i \in OrderRecordsOf(wal, wal[j].payload.taker_order_id) :
           \E k \in OrderRecordsOf(wal, wal[j].payload.maker_order_id) : i < k /\ k < j

\* positions of `line` in the file
WrittenAt(line) == {i \in 1..Len(ofs_.lines) : ofs_.lines[i].line = line}

\* C17: the WAL is FIFO: when append call A has returned before append call B
\* starts, A's record is written to the file before B's record, across the
\* batches and queue swaps of the writer thread.
C17_WalFifo ==
    \A pair \in hist.hb :
        \A j \in WrittenAt(pair[2]) :
            /\ pair[1] \notin hist.refused
            /\ \E i \in WrittenAt(pair[1]) : i < j

\* C17 witness: two appends, the second started after the first returned, were
\* written in two different batches of the writer
C17_Witness ==
    \E pair \in hist.hb :
        \E i \in WrittenAt(pair[1]), j \in WrittenAt(pair[2]) :
            /\ i < j
            /\ ofs_.lines[i].batch # ofs_.lines[j].batch

\* two appends, the second started after the first returned, written in one batch
C17_SameBatchWitness ==
    \E pair \in hist.hb :
        \E i \in WrittenAt(pair[1]), j \in WrittenAt(pair[2]) :
            /\ i < j
            /\ ofs_.lines[i].batch = ofs_.lines[j].batch

\* how often `line` is in the file
TimesWritten(line) == Cardinality(WrittenAt(line))

\* C18 (as claimed): no WAL record is lost or duplicated: every record that an
\* append call has pushed onto the queue is in the file exactly once when
\* stop() has returned, for every interleaving of appends with each other,
\* with the writer's queue swap and with stop(); and no record is ever in the
\* file twice.
C18_NoRecordLost ==
    /\ \A line \in Lines : TimesWritten(line) <= 1
    /\ stopper.pc = "returned" =>
          \A line \in hist.pushed_at_return : TimesWritten(line) = 1

\* a record was pushed before stop() returned and stop() has returned
C18_PushedBeforeStopReturned ==
    /\ stopper.pc = "returned"
    /\ hist.pushed_at_return # {}

\* C19 (as claimed): WAL::stop() always returns: in every interleaving of
\* stop() with the writer thread, once stop() has cleared running_ the writer
\* eventually exits and the join completes.
C19_StopReturns == (stopper.pc \in {"notify", "join"}) ~> (stopper.pc = "returned")

\* the writer blocked in cv_.wait after stop() has signalled, nothing in the queue
C19_WriterWaitsAfterStop ==
    /\ stopper.pc = "join"
    /\ writer_thread_.pc = "waiting"
    /\ queue_ = <<>>
    /\ \A a \in Appenders : appenders[a].pc = "idle"

\* the writer thread has a batch in hand and is writing it to ofs_, no lock held
WriterUsesFile ==
    /\ writer_thread_.pc \in {"write", "final_write"}
    /\ writer_thread_.local_queue # <<>>

\* C20 (as claimed): the WAL file handle is never used by two threads at once:
\* while rotate() or flush() is flushing, closing, renaming or reopening the
\* file the writer thread is not writing a batch to it, so no record is
\* written to a closed handle or dropped during a rotate.
C20_FileHandleExclusive ==
    /\ ~(AdminUsesFile /\ WriterUsesFile)
    /\ ~(WriterUsesFile /\ ~ofs_.is_open)
    /\ hist.lost = {}

\* a record of a batch was dropped: written while the handle was closed or in use
C20_RecordDropped ==
    /\ hist.lost # {}
    /\ writer_thread_.pc = "done"

\* ---- the StopOrderManager under test

IsCheckTriggers == som_last.op = "check_triggers"

\* ids of the stops stored on one side whose trigger_price satisfies `hit`
StopIds(mm) == {mm[i].stop.order_id : i \in 1..Len(mm)}
BuyStopsAtOrBelow(mgr, p) ==
    {mgr.buy_stops[i].stop.order_id :
        i \in {k \in 1..Len(mgr.buy_stops) : mgr.buy_stops[k].stop.trigger_price <= p}}
SellStopsAtOrAbove(mgr, p) ==
    {mgr.sell_stops[i].stop.order_id :
        i \in {k \in 1..Len(mgr.sell_stops) : mgr.sell_stops[k].stop.trigger_price >= p}}
TriggeredIds(side) ==
    {som_last.triggered_orders[i].order_id :
        i \in {k \in 1..Len(som_last.triggered_orders) :
                  som_last.triggered_orders[k].side = side}}

\* C22 (as claimed): check_triggers(p) returns and removes, from the manager
\* and its id-index, exactly the buy-stops with trigger_price <= p; every
\* buy-stop with trigger_price > p stays stored.
C22_BuyStopsTrigger ==
    IsCheckTriggers =>
        LET due == BuyStopsAtOrBelow(som_last.pre, som_last.price)
        IN /\ TriggeredIds("buy") = due
           /\ StopIds(som.buy_stops) = StopIds(som_last.pre.buy_stops) \ due
           /\ \A id \in due : id \notin DOMAIN som.order_index
           /\ \A id \in StopIds(som.buy_stops) : id \in DOMAIN som.order_index

\* C23 (as claimed): check_triggers(p) returns and removes, from the manager
\* and its id-index, exactly the sell-stops with trigger_price >= p, also when
\* other sell-stops with trigger_price < p are stored; every sell-stop with
\* trigger_price < p stays stored.
C23_SellStopsTrigger ==
    IsCheckTriggers =>
        LET due == SellStopsAtOrAbove(som_last.pre, som_last.price)
        IN /\ TriggeredIds("sell") = due
           /\ StopIds(som.sell_stops) = StopIds(som_last.pre.sell_stops) \ due
           /\ \A id \in due : id \notin DOMAIN som.order_index
           /\ \A id \in StopIds(som.sell_stops) : id \in DOMAIN som.order_index

\* the stops of a manager, buy side then sell side
AllStops(mgr) ==
    [i \in 1..(Len(mgr.buy_stops) + Len(mgr.sell_stops)) |->
        IF i <= Len(mgr.buy_stops) THEN mgr.buy_stops[i].stop
        ELSE mgr.sell_stops[i - Len(mgr.buy_stops)].stop]

StopsWithId(mgr, id) == SelectSeq(AllStops(mgr), LAMBDA s : s.order_id = id)

\* C24: each triggered stop is converted to one live order that keeps the
\* stop's order_id, side and quantity: a stop_loss becomes a Market order with
\* price 0, a stop-limit a Limit order with price = limit_price; after the call
\* cancel_stop_order on its id returns false.
C24_TriggeredStopConverted ==
    IsCheckTriggers =>
        \A i \in 1..Len(som_last.triggered_orders) :
            LET order == som_last.triggered_orders[i]
                stops == StopsWithId(som_last.pre, order.order_id)
            IN /\ Len(stops) = 1
               /\ \A k \in 1..Len(som_last.triggered_orders) :
                     som_last.triggered_orders[k].order_id = order.order_id => k = i
               /\ order.side = stops[1].side
               /\ order.quantity = stops[1].quantity
               /\ order.symbol = stops[1].symbol
               /\ stops[1].stop_type = "STOP_LOSS" =>
                     (order.order_type = "market" /\ order.price = 0)
               /\ stops[1].stop_type = "STOP_LIMIT" =>
                     (order.order_type = "limit" /\ order.price = stops[1].limit_price)
               /\ StopsWithId(som, order.order_id) = <<>>
               /\ ~cancel_stop_order(som, order.order_id).ok

\* C24 witness: one check_triggers call converted a stop_loss and a stop-limit
\* whose limit price differs from its trigger price
C24_Witness ==
    /\ IsCheckTriggers
    /\ \E i, k \in 1..Len(som_last.triggered_orders) :
          /\ som_last.triggered_orders[i].order_type = "market"
          /\ som_last.triggered_orders[k].order_type = "limit"
          /\ som_last.triggered_orders[k].price
                # StopsWithId(som_last.pre, som_last.triggered_orders[k].order_id)[1].trigger_price

\* C26 (as claimed): trailing stops only tighten: over any sequence of
\* update_trailing_stops calls after the stop was added, a buy trailing stop's
\* trigger_price never increases and a sell trailing stop's never decreases.
C26_TrailingOnlyTightens ==
    [][\A i \in 1..Len(AllStops(som)) : \A k \in 1..Len(AllStops(som')) :
          LET before == AllStops(som)[i]
              after == AllStops(som')[k]
          IN (before.order_id = after.order_id /\ before.stop_type = "TRAILING_STOP") =>
                IF before.side = "buy"
                THEN after.trigger_price <= before.trigger_price
                ELSE after.trigger_price >= before.trigger_price]_vars

\* a buy trailing stop whose trigger price stands above the one it was added with
C26_LoosenedWitness ==
    /\ som_last.op = "update_trailing_stops"
    /\ \E i \in 1..Len(som.buy_stops) :
          /\ som.buy_stops[i].stop.stop_type = "TRAILING_STOP"
          /\ som.buy_stops[i].stop.trigger_price > som.buy_stops[i].key

\* C27 (as claimed): the stop manager's keys agree with the stored stops:
\* after any sequence of add_stop_order, update_trailing_stops, check_triggers
\* and cancel_stop_order every stored stop sits in its side's map under a key
\* equal to its current trigger_price, the id-index holds that trigger_price
\* for its id, and the index has no id without a stored stop.
C27_KeysAgreeWithStops ==
    /\ \A i \in 1..Len(som.buy_stops) :
          /\ som.buy_stops[i].stop.side = "buy"
          /\ som.buy_stops[i].key = som.buy_stops[i].stop.trigger_price
    /\ \A i \in 1..Len(som.sell_stops) :
          /\ som.sell_stops[i].stop.side = "sell"
          /\ som.sell_stops[i].key = som.sell_stops[i].stop.trigger_price
    /\ \A i \in 1..Len(AllStops(som)) :
          /\ AllStops(som)[i].order_id \in DOMAIN som.order_index
          /\ som.order_index[AllStops(som)[i].order_id] = AllStops(som)[i].trigger_price
    /\ \A id \in DOMAIN som.order_index : StopsWithId(som, id) # <<>>

\* with keys that agree with the stored stops before the call, check_triggers
\* takes exactly the buy-stops at or below the price
C22_BuyStopsTriggerUnderTheirKey ==
    (IsCheckTriggers
     /\ \A i \in 1..Len(som_last.pre.buy_stops) :
           som_last.pre.buy_stops[i].key = som_last.pre.buy_stops[i].stop.trigger_price)
    => C22_BuyStopsTrigger

CancelRecordsOf(w, order_id) ==
    {i \in 1..Len(w) : w[i].type = "cancel" /\ w[i].payload.order_id = order_id}

\* the step of thread t changes a book or a stop manager
ChangesEngine(t) ==
    /\ threads'[t] # threads[t]
    /\ \E symbol \in Symbols :
          \/ BookOf(g_order_books', symbol) # BookOf(g_order_books, symbol)
          \/ ManagerOf(g_stop_order_managers', symbol)
                 # ManagerOf(g_stop_order_managers, symbol)

\* C21 (as claimed): for every submit and every cancel the WAL record of the
\* request is appended before the request changes the book or the stop
\* manager: a step of a cancel that changes them finds the cancel record of
\* its id in the WAL, a step of a submit finds the order record of its id.
C21_AppendThenAct ==
    [][\A t \in Threads :
          ChangesEngine(t) =>
              IF threads[t].pc = "cancel"
              THEN CancelRecordsOf(wal, threads[t].order_id) # {}
              ELSE OrderRecordsOf(wal, threads[t].o.order_id) # {}]_vars

\* the submit half: a step of POST /orders that changes a book finds the order
\* record of its order in the WAL
C21_SubmitAppendsFirst ==
    [][\A t \in Threads :
          (ChangesEngine(t) /\ threads[t].pc # "cancel") =>
              OrderRecordsOf(wal, threads[t].o.order_id) # {}]_vars

\* the order rests in one of the books / the stop order is stored in one of the managers
RestsInBooks(books, order_id) ==
    \E symbol \in DOMAIN books :
        \E side \in {books[symbol].bids, books[symbol].asks} :
            \E price \in DOMAIN side :
                \E i \in 1..Len(side[price]) : side[price][i].order_id = order_id
StoredInManagers(mgrs, order_id) ==
    \E symbol \in DOMAIN mgrs :
        \E mm \in {mgrs[symbol].buy_stops, mgrs[symbol].sell_stops} :
            \E i \in 1..Len(mm) : mm[i].stop.order_id = order_id

\* the trigger of the stop is crossed at price p
Crossed(stop, p) ==
    IF stop.side = "buy" THEN stop.trigger_price <= p ELSE stop.trigger_price >= p

\* C25 (as claimed): whenever a submit produces at least one trade, every stop
\* of the symbol whose trigger is crossed at the last trade's price (a buy-stop
\* with trigger <= that price, a sell-stop with trigger >= it) is removed from
\* the manager before the submit completes.
C25_StopsTriggeredAfterTrade ==
    (res.op = "submit" /\ res.trades # <<>>) =>
        LET p == res.trades[Len(res.trades)].price
            stops == AllStops(ManagerOf(g_stop_order_managers, res.symbol))
        IN \A i \in 1..Len(stops) : ~Crossed(stops[i], p)

\* C28: DELETE /orders/<id>: when the id is unknown, already fully filled or
\* already cancelled (it neither rests in a book nor is stored in a stop
\* manager) the request reports not-found, appends no WAL record, pushes no
\* broadcast and leaves every book, stop manager and the id-to-symbol index
\* unchanged; otherwise exactly one cancel record is appended and the
\* id-to-symbol entry is removed.
C28_CancelNotFoundOrOneRecord ==
    [][\A order_id \in DeleteIds :
          LET outcome ==
                  IF ~RestsInBooks(g_order_books, order_id)
                     /\ ~StoredInManagers(g_stop_order_managers, order_id)
                  THEN /\ res'.code = 404
                       /\ g_broadcast_queue' = <<>>
                       /\ UNCHANGED <<wal, g_order_books, g_stop_order_managers,
                                      g_order_id_to_symbol>>
                  ELSE /\ res'.code = 200
                       /\ wal' = Append(wal, wal_cancel(order_id, "user_request"))
                       /\ order_id \notin DOMAIN g_order_id_to_symbol'
                       /\ ~RestsInBooks(g_order_books', order_id)
                       /\ ~StoredInManagers(g_stop_order_managers', order_id)
          IN \* a DELETE step on order_id answers 404 or names order_id
             (res'.op = "cancel" /\ (res'.code = 404 \/ res'.order_id = order_id))
                 => (outcome \/ ~DeleteOrderId(order_id))]_vars

\* C28 witness: a cancel was answered not-found while the index holds the id
\* of a fully filled order and while an earlier cancel is on record
C28_Witness ==
    /\ res.op = "cancel"
    /\ res.code = 404
    /\ \E i \in 1..Len(wal) : wal[i].type = "cancel"
    /\ \E order_id \in DOMAIN g_order_id_to_symbol :
          /\ ~RestsInBooks(g_order_books, order_id)
          /\ ~StoredInManagers(g_stop_order_managers, order_id)

\* a cancel has removed a stop order and its cancel record ends the WAL
C28_CancelledWitness ==
    /\ res.op = "cancel"
    /\ res.code = 200
    /\ res.order_id[1] = "STO"
    /\ wal # <<>>
    /\ wal[Len(wal)] = wal_cancel(res.order_id, "user_request")
    /\ res.order_id \notin DOMAIN g_order_id_to_symbol

\* C29 (as claimed): a cancel pushes a book-update message only when it
\* removed a live resting order from the book; a cancel that removed only a
\* stop order pushes no book update.
C29_BroadcastOnlyForBookCancel ==
    [][\A order_id \in DeleteIds :
          (DeleteOrderId(order_id) /\ g_broadcast_queue' # <<>>)
              => RestsInBooks(g_order_books, order_id)]_vars

\* the status the claim gives for (kind, quantity, filled, remaining)
ClaimedStatus(kind, quantity, filled, remaining) ==
    IF kind = "limit"
    THEN (IF remaining = 0 THEN "filled"
          ELSE IF filled > 0 THEN "partially_filled" ELSE "open")
    ELSE IF kind \in {"market", "ioc"}
    THEN (IF filled = 0 THEN "cancelled"
          ELSE IF remaining > 0 THEN "partially_filled" ELSE "filled")
    ELSE (IF filled = quantity THEN "filled" ELSE "cancelled")

\* C30: the status returned by submit is the claimed function of (kind,
\* filled_qty, remaining_qty), and a Limit order rests on the book after the
\* call exactly when its status is open or partially_filled.
C30_StatusFunction ==
    /\ \A kind \in OrderTypes, quantity \in Qtys, filled \in 0..MaxQty :
          filled <= quantity =>
              order_status(kind, quantity, filled)
                  = ClaimedStatus(kind, quantity, filled, quantity - filled)
    /\ res.op = "submit" =>
        /\ res.status = ClaimedStatus(res.order_type, res.quantity, res.filled_quantity,
                                      res.remaining_quantity)
        /\ res.order_type = "limit" =>
              (RestsInBooks(g_order_books, res.order_id)
                  <=> res.status \in {"open", "partially_filled"})
        /\ res.order_type # "limit" => ~RestsInBooks(g_order_books, res.order_id)

\* C30 witness: a limit order was partially filled and its remainder rests
C30_Witness ==
    /\ res.op = "submit"
    /\ res.order_type = "limit"
    /\ res.status = "partially_filled"
    /\ RestsInBooks(g_order_books, res.order_id)

\* every status of every order type has been returned
C30_IocCancelled == res.op = "submit" /\ res.order_type = "ioc" /\ res.status = "cancelled"
C30_IocPartial == res.op = "submit" /\ res.order_type = "ioc" /\ res.status = "partially_filled"
C30_MarketPartial == res.op = "submit" /\ res.order_type = "market" /\ res.status = "partially_filled"
C30_FokFilled == res.op = "submit" /\ res.order_type = "fok" /\ res.status = "filled"
C30_FokCancelled == res.op = "submit" /\ res.order_type = "fok" /\ res.status = "cancelled"
C30_LimitFilled == res.op = "submit" /\ res.order_type = "limit" /\ res.status = "filled"
C30_LimitOpen == res.op = "submit" /\ res.order_type = "limit" /\ res.status = "open"

\* the ids of the order records of the WAL
LoggedIds == {wal[i].payload.order_id : i \in {k \in 1..Len(wal) : wal[k].type = "order"}}

\* C31 (as claimed): after replay of a WAL the id counters are above every id
\* in the log: the next order id ORD-n and the next stop id STO-n the engine
\* assigns differ from every order id recorded in the WAL.
C31_NextIdNotInLog ==
    /\ ord_id(g_total_orders + 1) \notin LoggedIds
    /\ sto_id(g_total_orders + 1) \notin LoggedIds

\* an order submitted after a restart rests on the book under the id of an
\* order that the replay put there
C31_SameIdRestsTwice ==
    \E symbol \in DOMAIN g_order_books, order_id \in LoggedIds :
        CountAll(g_order_books[symbol], order_id) > 1

\* the messages popped so far and the workers' exit
BqPopped == {bq_hist.popped[i].msg : i \in 1..Len(bq_hist.popped)}
AllWorkersDone == \A w \in Workers : workers[w].pc = "done"

\* C32 (as claimed): after stop() the workers exit only once the queue is
\* empty: when all workers have exited, every message that was pushed before
\* stop() has been popped and none of them remains in the queue.
C32_DrainedBeforeExit ==
    AllWorkersDone =>
        /\ bq_hist.at_stop \subseteq BqPopped
        /\ \A i \in 1..Len(bq_queue_) : bq_queue_[i] \notin bq_hist.at_stop

\* C33 (as claimed): after stop() every worker eventually terminates, so the
\* destructor's joins complete.
C33_WorkersTerminate ==
    (bq_stopper.pc \in {"notify", "join"}) ~> (bq_stopper.pc = "returned")

\* a worker blocks in cv_.wait after stop() has signalled
C33_WorkerWaitsAfterStop ==
    /\ bq_stopper.pc = "join"
    /\ \E w \in Workers : workers[w].pc = "waiting"

\* C40: each message pushed while the queue is running is popped by exactly
\* one worker and handed to the sink at most once; no worker holds the queue
\* lock while it invokes the sink; while the queue runs no message is left
\* behind with every worker blocked and no push under way.
C40_PoppedOnceSinkUnlocked ==
    /\ \A i, j \in 1..Len(bq_hist.popped) :
          i # j => bq_hist.popped[i].msg # bq_hist.popped[j].msg
    /\ BqPopped \subseteq bq_hist.pushed
    /\ \A i, j \in 1..Len(bq_hist.sink) : i # j => bq_hist.sink[i] # bq_hist.sink[j]
    /\ \A i \in 1..Len(bq_hist.sink) : bq_hist.sink[i] \in BqPopped
    /\ \A i \in 1..Len(bq_queue_) : bq_queue_[i] \notin BqPopped
    /\ ~bq_hist.sink_under_lock
    /\ \A w \in Workers : workers[w].pc = "process" => bq_mu_ # w
    /\ (/\ bq_running_
        /\ \A w \in Workers : workers[w].pc = "waiting"
        /\ \A p \in Pushers : pushers[p].pc = "idle") => bq_queue_ = <<>>

\* C40 witness: two messages were in the queue together, were popped by two
\* different workers, and both were handed to the sink while a pusher held
\* or could take the lock
C40_Witness ==
    /\ Len(bq_hist.popped) = 2
    /\ bq_hist.popped[1].by # bq_hist.popped[2].by
    /\ Len(bq_hist.sink) = 2
    /\ bq_running_

\* a worker calls the sink while a pusher holds the lock
C40_PushDuringSink ==
    \E w \in Workers, p \in Pushers : workers[w].pc = "process" /\ bq_mu_ = p

\* ---------------------------------------------------------------- C34
LkHeld(t) == {m \in Locks : lk_owner[m] = t}
LkWants(t, m) ==
    /\ lk_threads[t] # <<>>
    /\ Head(lk_threads[t]).op = "lock"
    /\ Head(lk_threads[t]).m = m
LkRank(m) ==
    CASE m.mutex = "g_global_mutex" -> 1
      [] m.mutex = "OrderBook::mu_" -> 2
      [] m.mutex = "StopOrderManager::mu_" -> 3
      [] m.mutex = "WAL::mu_" -> 4
      [] m.mutex = "BroadcastQueue::mu_" -> 5
      [] OTHER -> 6
LkCanStep(t) ==
    /\ lk_threads[t] # <<>>
    /\ \/ Head(lk_threads[t]).op = "unlock"
       \/ lk_owner[Head(lk_threads[t]).m] = "free"

\* C34: a thread that is about to take a mutex holds only mutexes earlier in
\* the order engine, book, stop manager, WAL queue, broadcast queue; it takes
\* the WAL or the broadcast queue mutex holding neither the engine mutex nor a
\* book mutex; and whenever some request is under way, some thread that has
\* calls left can take its next step (no deadlock)
C34_LockOrderNoDeadlock ==
    /\ \A t \in LkThreads, m \in Locks :
           LkWants(t, m) =>
               /\ \A h \in LkHeld(t) : LkRank(h) < LkRank(m)
               /\ m \in {WalLock, BqLock} =>
                      \A h \in LkHeld(t) : h.mutex \notin {"g_global_mutex", "OrderBook::mu_"}
    /\ (\E t \in LkThreads : lk_threads[t] # <<>>) => \E t \in LkThreads : LkCanStep(t)

\* one handler holds the engine mutex and a book mutex inside it while the
\* other handler waits for the engine mutex
C34_Witness ==
    \E t \in HandlerThreads, u \in HandlerThreads, s \in LockSymbols :
        /\ t # u
        /\ {EngineLock, BookLock(s)} \subseteq LkHeld(t)
        /\ LkWants(u, EngineLock)

\* a handler waits for the WAL mutex while the WAL writer holds it
C34_WaitsForWriter ==
    \E t \in HandlerThreads : LkWants(t, WalLock) /\ lk_owner[WalLock] = "wal_writer"

\* ---------------------------------------------------------------- C35, C36
FeeTrades == {fee_last[i] : i \in 1..Len(fee_last)}
RatioGap(trade) ==
    trade.maker_fee * fee_config_.taker_fee_bps - trade.taker_fee * fee_config_.maker_fee_bps

\* C35 as stated: for every trade maker_fee * taker_bps = taker_fee * maker_bps,
\* and with 10 and 20 bps taker_fee = 2 * maker_fee
C35_ExactRatio ==
    \A trade \in FeeTrades :
        /\ RatioGap(trade) = 0
        /\ trade.taker_fee = 2 * trade.maker_fee

\* C35, amended: the two products are equal whenever both fees are exact
\* (notional * bps is a multiple of 10000 for both), and otherwise differ by
\* less than one fee unit each way: -taker_bps < maker_fee * taker_bps -
\* taker_fee * maker_bps < maker_bps; with 10 and 20 bps taker_fee is
\* 2 * maker_fee or 2 * maker_fee + 1
C35_RatioWithinTruncation ==
    \A trade \in FeeTrades :
        LET notional == MulDivSquare(trade.price, trade.quantity, NotionalDivisorRoot)
        IN /\ -fee_config_.taker_fee_bps < RatioGap(trade)
           /\ RatioGap(trade) < fee_config_.maker_fee_bps
           /\ trade.taker_fee \in {2 * trade.maker_fee, 2 * trade.maker_fee + 1}
           /\ ((notional * fee_config_.maker_fee_bps) % 10000 = 0
               /\ (notional * fee_config_.taker_fee_bps) % 10000 = 0)
              => RatioGap(trade) = 0

\* a trade whose taker fee is one more than twice its maker fee, and in the
\* same fill a trade with exact fees above zero
C35_Witness ==
    /\ \E trade \in FeeTrades : trade.taker_fee = 2 * trade.maker_fee + 1
    /\ \E trade \in FeeTrades : trade.maker_fee > 0 /\ trade.taker_fee = 2 * trade.maker_fee

\* C36: for every trade notional = (price * quantity) / 10^6, maker_fee =
\* notional * maker_bps / 10000 and taker_fee = notional * taker_bps / 10000,
\* each trade by its own price and quantity
C36_FeeFormula ==
    \A trade \in FeeTrades :
        LET notional == MulDivSquare(trade.price, trade.quantity, 1000)
        IN /\ trade.maker_fee = (notional * fee_config_.maker_fee_bps) \div 10000
           /\ trade.taker_fee = (notional * fee_config_.taker_fee_bps) \div 10000

\* the fill of the fee test: price 50000.00, quantity 1, fees 50 and 100
C36_TestFill ==
    \E trade \in FeeTrades :
        /\ trade.price = 5000000 /\ trade.quantity = 1000000
        /\ trade.maker_fee = 50 /\ trade.taker_fee = 100

\* ---------------------------------------------------------------- C37
\* a line is a well-formed record when it opens with "{", closes with "}" and
\* carries one record between them
IsRecordLine(line) == Len(line) = 3 /\ Head(line) = "{" /\ line[Len(line)] = "}"
RECURSIVE RecordsOf(_)
RecordsOf(lines) ==
    IF lines = <<>> THEN <<>>
    ELSE (IF IsRecordLine(Head(lines)) THEN <<[record |-> Head(lines)[2]]>> ELSE <<>>)
         \o RecordsOf(Tail(lines))
BadLinesOf(lines) == {i \in 1..Len(lines) : lines[i] # <<>> /\ ~IsRecordLine(lines[i])}

\* C37: replay returns the well-formed records of the file in file order,
\* whatever malformed lines lie between them, and the empty sequence when the
\* file does not exist; it counts the malformed lines; the file is the same
\* during and after the call as before it
C37_ReplayYieldsWellFormed ==
    /\ rp.pc # "idle" => wal_file = rp.before
    /\ rp.pc = "getline" =>
           rp.entries = RecordsOf(SubSeq(wal_file.lines, 1, rp.line_num))
    /\ rp.pc \in {"close", "done"} =>
           /\ rp.entries = RecordsOf(wal_file.lines)
           /\ rp.errors = Cardinality(BadLinesOf(wal_file.lines))
           /\ ~wal_file.exists => rp.entries = <<>>

\* replay has returned from a file with a malformed line followed by a
\* well-formed record
C37_Witness ==
    /\ rp.pc = "done"
    /\ \E i \in BadLinesOf(wal_file.lines), j \in 1..Len(wal_file.lines) :
           i < j /\ IsRecordLine(wal_file.lines[j])
    /\ rp.entries # <<>>

\* replay has returned from a file that does not exist
C37_MissingFile == rp.pc = "done" /\ ~wal_file.exists /\ rp.entries = <<>>

\* ---------------------------------------------------------------- C38
IdsInFlight == {store_id(id_callers[c].id) : c \in {d \in StoreCallers : id_callers[d].pc = "format"}}
IdsReturned == {id_returned[i] : i \in 1..Len(id_returned)}

\* C38: no two calls of next_id return the same id, whichever threads make
\* them and however they interleave: the ids returned so far are pairwise
\* different, and so are the ids taken by the calls still under way, which
\* also differ from every id returned
C38_NextIdUnique ==
    /\ \A i, j \in 1..Len(id_returned) : i # j => id_returned[i] # id_returned[j]
    /\ \A c, d \in StoreCallers :
           (c # d /\ id_callers[c].pc = "format" /\ id_callers[d].pc = "format")
               => id_callers[c].id # id_callers[d].id
    /\ IdsInFlight \cap IdsReturned = {}

\* two calls overlapped: the one that took the later id returned first, while
\* a third call is under way
C38_Witness ==
    /\ Len(id_returned) >= 2
    /\ id_returned[1][2] > id_returned[2][2]
    /\ \E c \in StoreCallers : id_callers[c].pc = "format"

\* ---------------------------------------------------------------- C39
\* thread u is past a successful cancel of order_id
CancelSucceeded(u, order_id) ==
    threads[u].pc \in {"append_cancel", "erase_id"} /\ threads[u].order_id = order_id

\* C39: of the cancel requests for one id that run at the same time, the one
\* whose cancel step finds the order resting takes it out of the book, and it
\* is the only one: no cancel record for the id exists and no other request
\* has succeeded on it; every request whose cancel step does not find the
\* order resting ends as not found and appends nothing; the request that
\* succeeded appends the one cancel record of the id
C39_OneCancelSucceeds ==
    [][\A t \in Threads :
          /\ (threads[t].pc = "cancel" /\ threads'[t] # threads[t]) =>
                 IF RestsInBooks(g_order_books, threads[t].order_id)
                 THEN /\ threads'[t].pc = "append_cancel"
                      /\ ~RestsInBooks(g_order_books', threads[t].order_id)
                      /\ CancelRecordsOf(wal, threads[t].order_id) = {}
                      /\ \A u \in Threads \ {t} : ~CancelSucceeded(u, threads[t].order_id)
                 ELSE /\ threads'[t] = IdleThread
                      /\ wal' = wal
                      /\ g_order_books' = g_order_books
          /\ (threads[t].pc = "append_cancel" /\ threads'[t] # threads[t]) =>
                 Cardinality(CancelRecordsOf(wal', threads[t].order_id)) = 1]_vars

\* two requests looked up the same id while it rested; one has cancelled it,
\* the other has its cancel step still before it
C39_Witness ==
    \E t \in Threads, u \in Threads :
        /\ t # u
        /\ CancelSucceeded(t, threads[t].order_id)
        /\ threads[u].pc = "cancel"
        /\ threads[u].order_id = threads[t].order_id

\* the cancel record of an id is in the WAL and a second request for the
\* same id went past its lookup
C39_SecondAfterRecord ==
    \E u \in Threads :
        /\ threads[u].pc = "cancel"
        /\ CancelRecordsOf(wal, threads[u].order_id) # {}

====
